---- MODULE Spec2Model ----
(***************************************************************************)
(* Interaction event routing and manipulation of the SpectaclesInteraction *)
(* Kit: the Interactable hover/trigger state machine and the               *)
(* InteractableManipulation component that subscribes to it.               *)
(*                                                                         *)
(* Numbers are exact rationals <<n, d>> in lowest terms with d >= 0; the   *)
(* pairs with d = 0 are the IEEE specials the JavaScript arithmetic of the *)
(* source produces on a division by zero: <<1,0>> = +Infinity,             *)
(* <<-1,0>> = -Infinity, <<0,0>> = NaN.                                    *)
(* Rotations are the proper rotations of the cube, as 3x3 matrices.        *)
(***************************************************************************)
EXTENDS Integers, Sequences, FiniteSets, TLC

VARIABLES
  hoveringInteractor,   \* Interactable._hoveringInteractor (bitmask)
  triggeringInteractor, \* Interactable._triggeringInteractor (bitmask)
  allowMultipleInteractors, \* Interactable.allowMultipleInteractors (input)
  interactor,           \* the per-frame snapshots of the Interactors (input)
  manip,                \* the private fields of InteractableManipulation
  root,                 \* manipulateRoot: the manipulated Transform
  emitted,              \* the events invoked by the last handler, in order
  lastCall,             \* the handler the dispatcher called last
  session,              \* monitor: manipulation Start events not yet matched by an End
  baseColor,            \* InteractableColorFeedback: mainPass.baseColor of the mesh materials
  handVisual,           \* the fields of the HandVisual of each hand
  headlock              \* the fields of a Headlock and of its controller

vars == <<hoveringInteractor, triggeringInteractor, allowMultipleInteractors,
          interactor, manip, root, emitted, lastCall, session,
          baseColor, handVisual, headlock>>

\* null, for a vector, a rotation or a number
Null == <<>>
\* a null event argument, and no Interactable
NoEvent == "null"
NoInteractable == "null"

\* const x = value, then the statements Body that read x
With(value, Body(_)) == Body(value)

-----------------------------------------------------------------------------
(* Numbers *)

Abs(x) == IF x < 0 THEN -x ELSE x

RECURSIVE Gcd(_, _)
Gcd(a, b) == IF b = 0 THEN a ELSE Gcd(b, a % b)

Sgn(x) == IF x > 0 THEN 1 ELSE IF x < 0 THEN -1 ELSE 0

Norm(n, d) ==
  IF d = 0 THEN <<Sgn(n), 0>>
  ELSE LET g == Gcd(Abs(n), Abs(d))
       IN  IF d < 0 THEN <<(-n) \div g, (-d) \div g>> ELSE <<n \div g, d \div g>>

R(n) == <<n, 1>>
Zero == <<0, 1>>
One == <<1, 1>>
NaN == <<0, 0>>
Infinity == <<1, 0>>

IsNaN(a) == a = NaN
IsFinite(a) == a[2] # 0

Neg(a) == <<-a[1], a[2]>>

Add(a, b) ==
  IF a[2] = 0 /\ b[2] = 0
  THEN (IF a = b THEN a ELSE NaN)
  ELSE Norm(a[1] * b[2] + b[1] * a[2], a[2] * b[2])

Sub(a, b) == Add(a, Neg(b))

Mul(a, b) ==
  IF a[2] = 0 /\ b[2] = 0
  THEN (IF IsNaN(a) \/ IsNaN(b) THEN NaN ELSE <<a[1] * b[1], 0>>)
  ELSE Norm(a[1] * b[1], a[2] * b[2])

\* JavaScript "/": x / 0 is +-Infinity, 0 / 0 and Infinity / Infinity are NaN
Div(a, b) ==
  IF b[1] < 0 THEN Norm(-(a[1] * b[2]), a[2] * (-b[1]))
  ELSE Norm(a[1] * b[2], a[2] * b[1])

\* JavaScript "<": false as soon as one operand is NaN
Lt(a, b) ==
  /\ ~IsNaN(a)
  /\ ~IsNaN(b)
  /\ IF a[2] = 0 /\ b[2] = 0 THEN a[1] < b[1] ELSE a[1] * b[2] < b[1] * a[2]

Gt(a, b) == Lt(b, a)
Le(a, b) == ~IsNaN(a) /\ ~IsNaN(b) /\ ~Lt(b, a)

\* Math.min / Math.max: NaN as soon as one argument is NaN
Min2(a, b) == IF IsNaN(a) \/ IsNaN(b) THEN NaN ELSE IF Lt(b, a) THEN b ELSE a
Max2(a, b) == IF IsNaN(a) \/ IsNaN(b) THEN NaN ELSE IF Lt(a, b) THEN b ELSE a
Min3(a, b, c) == Min2(Min2(a, b), c)

\* Math.sign of a finite number
Sign(a) == Sgn(a[1])

AbsR(a) == <<Abs(a[1]), a[2]>>

\* MathUtils.clamp(v, lo, hi)
Clamp(v, lo, hi) == Max2(lo, Min2(v, hi))

\* MathUtils.lerp(a, b, t)
Lerp(a, b, t) == Add(a, Mul(Sub(b, a), t))

-----------------------------------------------------------------------------
(* vec3 *)

V(x, y, z) == <<R(x), R(y), R(z)>>
VecZero == V(0, 0, 0)
VecOne == V(1, 1, 1)
VecUp == V(0, 1, 0)

VAdd(u, v) == <<Add(u[1], v[1]), Add(u[2], v[2]), Add(u[3], v[3])>>
VSub(u, v) == <<Sub(u[1], v[1]), Sub(u[2], v[2]), Sub(u[3], v[3])>>
UniformScale(v, k) == <<Mul(v[1], k), Mul(v[2], k), Mul(v[3], k)>>
Dot(u, v) == Add(Add(Mul(u[1], v[1]), Mul(u[2], v[2])), Mul(u[3], v[3]))
Cross(u, v) ==
  << Sub(Mul(u[2], v[3]), Mul(u[3], v[2])),
     Sub(Mul(u[3], v[1]), Mul(u[1], v[3])),
     Sub(Mul(u[1], v[2]), Mul(u[2], v[1])) >>

\* the square root of a rational that is a perfect square
SqrtR(a) ==
  LET n == CHOOSE k \in 0..Abs(a[1]) : k * k = a[1]
      d == CHOOSE k \in 0..a[2] : k * k = a[2]
  IN  Norm(n, d)

Length(v) == SqrtR(Dot(v, v))
Distance(u, v) == Length(VSub(u, v))

\* vec3.projectOnPlane(axis) for a unit axis
ProjectOnPlane(v, axis) == VSub(v, UniformScale(axis, Dot(v, axis)))

-----------------------------------------------------------------------------
(* quat, as rotation matrices: rows of integers *)

QuatIdentity == << <<1, 0, 0>>, <<0, 1, 0>>, <<0, 0, 1>> >>
RotX90 == << <<1, 0, 0>>, <<0, 0, -1>>, <<0, 1, 0>> >>
RotY90 == << <<0, 0, 1>>, <<0, 1, 0>>, <<-1, 0, 0>> >>
RotZ90 == << <<0, -1, 0>>, <<1, 0, 0>>, <<0, 0, 1>> >>

\* a.multiply(b): the rotation that applies b first, then a
Multiply(a, b) ==
  [i \in 1..3 |-> [j \in 1..3 |->
     a[i][1] * b[1][j] + a[i][2] * b[2][j] + a[i][3] * b[3][j]]]

\* quat.invert()
Invert(a) == [i \in 1..3 |-> [j \in 1..3 |-> a[j][i]]]

\* quat.multiplyVec3(v)
MultiplyVec3(a, v) ==
  [i \in 1..3 |->
     Add(Add(Mul(R(a[i][1]), v[1]), Mul(R(a[i][2]), v[2])), Mul(R(a[i][3]), v[3]))]

\* quat.fromEulerAngles(0, -90, 0)
YAW_NEGATIVE_90 == Invert(RotY90)

\* quat.lookAt(forward, up) of the engine: the rotation whose z axis is forward
\* and whose y axis is up. For a forward vector that is zero, not along an
\* axis, or parallel to up, the engine's result is not known here: any.
IsAxis(v) ==
  /\ \A k \in 1..3 : IsFinite(v[k])
  /\ Cardinality({k \in 1..3 : v[k] # Zero}) = 1

LookAt(forward, up, any) ==
  IF IsAxis(forward) /\ IsAxis(up) /\ Dot(forward, up) = Zero
  THEN LET f == [k \in 1..3 |-> Sign(forward[k])]
           u == [k \in 1..3 |-> Sign(up[k])]
           r == << u[2] * f[3] - u[3] * f[2],
                   u[3] * f[1] - u[1] * f[3],
                   u[1] * f[2] - u[2] * f[1] >>
       IN  [i \in 1..3 |-> <<r[i], u[i], f[i]>>]
  ELSE any

-----------------------------------------------------------------------------
(* InteractorInputType: a bitmask *)

None == 0
LeftHand == 1
RightHand == 2
Mobile == 4

InputTypeBits == 3

Bit(n, k) == (n \div (2 ^ k)) % 2

\* a | b
BitOr(a, b) ==
  LET F[k \in 0..InputTypeBits] ==
        IF k = InputTypeBits THEN 0
        ELSE (IF Bit(a, k) = 1 \/ Bit(b, k) = 1 THEN 2 ^ k ELSE 0) + F[k + 1]
  IN  F[0]

\* a & b
BitAnd(a, b) ==
  LET F[k \in 0..InputTypeBits] ==
        IF k = InputTypeBits THEN 0
        ELSE (IF Bit(a, k) = 1 /\ Bit(b, k) = 1 THEN 2 ^ k ELSE 0) + F[k + 1]
  IN  F[0]

\* a & ~b
BitAndNot(a, b) ==
  LET F[k \in 0..InputTypeBits] ==
        IF k = InputTypeBits THEN 0
        ELSE (IF Bit(a, k) = 1 /\ Bit(b, k) = 0 THEN 2 ^ k ELSE 0) + F[k + 1]
  IN  F[0]

-----------------------------------------------------------------------------
(* The Interactors the interaction manager knows: one per input type, in   *)
(* the manager's order.                                                    *)

ManagerOrder == <<"left", "right", "mobile">>
Interactors == {ManagerOrder[k] : k \in 1..Len(ManagerOrder)}

InputType(i) ==
  CASE i = "left" -> LeftHand
    [] i = "right" -> RightHand
    [] i = "mobile" -> Mobile

\* InteractionManager.getInteractorsByType(inputType)
getInteractorsByType(inputType) ==
  SelectSeq(ManagerOrder, LAMBDA i : BitAnd(InputType(i), inputType) # 0)

-----------------------------------------------------------------------------
(* Events *)

\* an event of the Interactable, invoked with the interactor of eventArgs
Ev(name, i) ==
  [ev |-> name, by |-> i, interactors |-> <<>>, start |-> Null, current |-> Null]

\* an event of InteractableManipulation with the payload of its argument
MEv(name, list, start, current) ==
  [ev |-> name, by |-> "manipulation", interactors |-> list, start |-> start,
   current |-> current]

Names(out) == [k \in 1..Len(out) |-> out[k].ev]

-----------------------------------------------------------------------------
(* InteractableManipulation: helpers.  m is the record of the component's  *)
(* fields, s an Interactor snapshot, c = [m, root, out] the fields, the    *)
(* manipulated transform and the events invoked so far by the handler.     *)

canTranslate(m) == m.enableTranslation
canRotate(m) == m.enableRotation
canScale(m) == m.enableScale

isInteractorValid(s) ==
  /\ s.startPoint # Null
  /\ s.orientation # Null
  /\ s.direction # Null
  /\ s.distanceToTarget # Null
  /\ s.active

getRayPosition(s) ==
  IF ~isInteractorValid(s) THEN VecZero
  ELSE VAdd(s.startPoint, UniformScale(s.direction, s.distanceToTarget))

\* toEulerAngles followed by fromEulerVec gives the rotation back
limitQuatRotation(m, rotation) ==
  IF ~canRotate(m) THEN QuatIdentity ELSE rotation

RotationAxisVector(axis) ==
  CASE axis = "X" -> V(1, 0, 0)
    [] axis = "Y" -> V(0, 1, 0)
    [] axis = "Z" -> V(0, 0, 1)

\* getDualInteractorDirection that turns currentUp over whenever the sign is
\* not 0
getDualInteractorDirection_FlipOnSign(m, s1, s2, any) ==
  IF s1.startPoint = Null \/ s2.startPoint = Null
  THEN [rotation |-> Null, m |-> m]
  ELSE
    LET single == m.rotationAxis # "All" IN
    With(IF single
         THEN ProjectOnPlane(s1.startPoint, RotationAxisVector(m.rotationAxis))
         ELSE s1.startPoint, LAMBDA point1 :
    With(IF single
         THEN ProjectOnPlane(s2.startPoint, RotationAxisVector(m.rotationAxis))
         ELSE s2.startPoint, LAMBDA point2 :
    With(IF m.rotationAxis = "X" THEN Sign(Sub(point2[3], point1[3]))
         ELSE IF m.rotationAxis = "Z" THEN Sign(Sub(point2[1], point1[1]))
         ELSE 0, LAMBDA sign :
    With(IF sign # 0
         THEN [m EXCEPT !.currentUp = UniformScale(m.currentUp, R(-1)),
                        !.currentRotationSign = sign]
         ELSE m, LAMBDA m1 :
      LET rotation == Multiply(LookAt(VSub(point2, point1), m1.currentUp, any),
                               YAW_NEGATIVE_90)
      IN  [rotation |-> limitQuatRotation(m1, rotation), m |-> m1]))))

\* returns the rotation (or Null) and the fields with currentUp and
\* currentRotationSign as the call leaves them
getDualInteractorDirection(m, s1, s2, any) ==
  IF s1.startPoint = Null \/ s2.startPoint = Null
  THEN [rotation |-> Null, m |-> m]
  ELSE
    LET single == m.rotationAxis # "All" IN
    With(IF single
         THEN ProjectOnPlane(s1.startPoint, RotationAxisVector(m.rotationAxis))
         ELSE s1.startPoint, LAMBDA point1 :
    With(IF single
         THEN ProjectOnPlane(s2.startPoint, RotationAxisVector(m.rotationAxis))
         ELSE s2.startPoint, LAMBDA point2 :
    With(IF m.rotationAxis = "X" THEN Sign(Sub(point2[3], point1[3]))
         ELSE IF m.rotationAxis = "Z" THEN Sign(Sub(point2[1], point1[1]))
         ELSE 0, LAMBDA sign :
    With(IF sign # m.currentRotationSign
         THEN [m EXCEPT !.currentUp = UniformScale(m.currentUp, R(-1)),
                        !.currentRotationSign = sign]
         ELSE m, LAMBDA m1 :
      LET rotation == Multiply(LookAt(VSub(point2, point1), m1.currentUp, any),
                               YAW_NEGATIVE_90)
      IN  [rotation |-> limitQuatRotation(m1, rotation), m |-> m1]))))

\* the world transform of the manipulated root (the root has no parent, so
\* its local and world values coincide)
Snapshot(t) ==
  [position |-> t.position, rotation |-> t.rotation, scale |-> t.scale]

\* updateStartValues with the offset of the Indirect mode in the Direct mode
updateStartValues_RayOffset(c, inter, frame) ==
  LET m0 == [c.m EXCEPT !.mobileStretch = Zero,
                        !.smoothedStretch = Zero,
                        !.startStretchInteractorDistance = Zero,
                        !.translateFilter = Null,
                        !.rotationFilter = Null,
                        !.scaleFilter = Null,
                        !.startTransform = Snapshot(c.root)]
      start == m0.startTransform
      n == Len(m0.interactors)
  IN
  IF n = 1 THEN
    LET s == inter[m0.interactors[1]] IN
    IF ~isInteractorValid(s) THEN [c EXCEPT !.m = m0]
    ELSE
      LET m1 == [m0 EXCEPT !.cachedTargetingMode = s.activeTargetingMode] IN
      IF s.activeTargetingMode = "Direct"
      THEN [c EXCEPT !.m =
              [m1 EXCEPT !.offsetPosition = VSub(getRayPosition(s), s.startPoint),
                         !.offsetRotation = Multiply(Invert(s.orientation), start.rotation)]]
      ELSE With(getRayPosition(s), LAMBDA rayPosition :
           [c EXCEPT !.m =
              [m1 EXCEPT !.offsetPosition = VSub(rayPosition, s.startPoint),
                         !.hitPointToTransform = VSub(start.position, rayPosition),
                         !.offsetRotation = Multiply(Invert(frame.cameraRotation), start.rotation)]])
  ELSE IF n = 2 THEN
    LET s1 == inter[m0.interactors[1]]
        s2 == inter[m0.interactors[2]]
    IN
    IF ~isInteractorValid(s1) \/ ~isInteractorValid(s2) THEN [c EXCEPT !.m = m0]
    ELSE
      LET isDirect == s1.activeTargetingMode = "Direct" \/ s2.activeTargetingMode = "Direct"
          interactorMidPoint == UniformScale(VAdd(s1.startPoint, s2.startPoint), <<1, 2>>)
          m1 == [m0 EXCEPT !.cachedTargetingMode = IF isDirect THEN "Direct" ELSE "Indirect",
                           !.currentUp = VecUp,
                           !.currentRotationSign = 0]
      IN
      With(getDualInteractorDirection(m1, s1, s2, frame.any), LAMBDA dual :
      With([dual.m EXCEPT !.initialInteractorDistance = Distance(s1.startPoint, s2.startPoint),
                          !.initialObjectScale = c.root.scale], LAMBDA m2 :
        IF dual.rotation = Null THEN [c EXCEPT !.m = m2]
        ELSE
          With([m2 EXCEPT !.offsetRotation = Multiply(Invert(dual.rotation), start.rotation)],
               LAMBDA m3 :
            IF isDirect
            THEN [c EXCEPT !.m = [m3 EXCEPT !.offsetPosition = VSub(start.position, interactorMidPoint)]]
            ELSE With(UniformScale(VAdd(getRayPosition(s1), getRayPosition(s2)), <<1, 2>>),
                      LAMBDA dualRayPosition :
                   [c EXCEPT !.m =
                      [m3 EXCEPT !.offsetPosition = VSub(dualRayPosition, interactorMidPoint),
                                 !.hitPointToTransform = VSub(start.position, dualRayPosition)]]))))
  ELSE [c EXCEPT !.m = m0]

updateStartValues(c, inter, frame) ==
  LET m0 == [c.m EXCEPT !.mobileStretch = Zero,
                        !.smoothedStretch = Zero,
                        !.startStretchInteractorDistance = Zero,
                        !.translateFilter = Null,
                        !.rotationFilter = Null,
                        !.scaleFilter = Null,
                        !.startTransform = Snapshot(c.root)]
      start == m0.startTransform
      n == Len(m0.interactors)
  IN
  IF n = 1 THEN
    LET s == inter[m0.interactors[1]] IN
    IF ~isInteractorValid(s) THEN [c EXCEPT !.m = m0]
    ELSE
      LET m1 == [m0 EXCEPT !.cachedTargetingMode = s.activeTargetingMode] IN
      IF s.activeTargetingMode = "Direct"
      THEN [c EXCEPT !.m =
              [m1 EXCEPT !.offsetPosition = VSub(start.position, s.startPoint),
                         !.offsetRotation = Multiply(Invert(s.orientation), start.rotation)]]
      ELSE With(getRayPosition(s), LAMBDA rayPosition :
           [c EXCEPT !.m =
              [m1 EXCEPT !.offsetPosition = VSub(rayPosition, s.startPoint),
                         !.hitPointToTransform = VSub(start.position, rayPosition),
                         !.offsetRotation = Multiply(Invert(frame.cameraRotation), start.rotation)]])
  ELSE IF n = 2 THEN
    LET s1 == inter[m0.interactors[1]]
        s2 == inter[m0.interactors[2]]
    IN
    IF ~isInteractorValid(s1) \/ ~isInteractorValid(s2) THEN [c EXCEPT !.m = m0]
    ELSE
      LET isDirect == s1.activeTargetingMode = "Direct" \/ s2.activeTargetingMode = "Direct"
          interactorMidPoint == UniformScale(VAdd(s1.startPoint, s2.startPoint), <<1, 2>>)
          m1 == [m0 EXCEPT !.cachedTargetingMode = IF isDirect THEN "Direct" ELSE "Indirect",
                           !.currentUp = VecUp,
                           !.currentRotationSign = 0]
      IN
      With(getDualInteractorDirection(m1, s1, s2, frame.any), LAMBDA dual :
      With([dual.m EXCEPT !.initialInteractorDistance = Distance(s1.startPoint, s2.startPoint),
                          !.initialObjectScale = c.root.scale], LAMBDA m2 :
        IF dual.rotation = Null THEN [c EXCEPT !.m = m2]
        ELSE
          With([m2 EXCEPT !.offsetRotation = Multiply(Invert(dual.rotation), start.rotation)],
               LAMBDA m3 :
            IF isDirect
            THEN [c EXCEPT !.m = [m3 EXCEPT !.offsetPosition = VSub(start.position, interactorMidPoint)]]
            ELSE With(UniformScale(VAdd(getRayPosition(s1), getRayPosition(s2)), <<1, 2>>),
                      LAMBDA dualRayPosition :
                   [c EXCEPT !.m =
                      [m3 EXCEPT !.offsetPosition = VSub(dualRayPosition, interactorMidPoint),
                                 !.hitPointToTransform = VSub(start.position, dualRayPosition)]]))))
  ELSE [c EXCEPT !.m = m0]

\* getTriggeringInteractors over a manager that lists the hands a second time
getTriggeringInteractors_HandsTwice(ti, inter) ==
  SelectSeq(getInteractorsByType(ti) \o getInteractorsByType(BitAnd(ti, BitOr(LeftHand, RightHand))),
            LAMBDA i : inter[i].currentInteractable = "this" /\ inter[i].currentTrigger # "None")

\* getTriggeringInteractors: the manager's interactors of the triggering
\* types that target this Interactable with an active trigger
getTriggeringInteractors(ti, inter) ==
  SelectSeq(getInteractorsByType(ti),
            LAMBDA i : inter[i].currentInteractable = "this" /\ inter[i].currentTrigger # "None")

\* invokeEvents: te, re, se, me are event names, or NoEvent for a null argument
\* invokeEvents with the scale event not gated by canScale
invokeEvents_ScaleUngated(c, te, re, se, me) ==
  LET m == c.m
      o1 == IF canTranslate(m) /\ te # NoEvent
            THEN <<MEv(te, m.interactors, m.startTransform.position, c.root.position)>>
            ELSE <<>>
      o2 == IF canRotate(m) /\ re # NoEvent
            THEN <<MEv(re, m.interactors, m.startTransform.rotation, c.root.rotation)>>
            ELSE <<>>
      o3 == IF se # NoEvent
            THEN <<MEv(se, m.interactors, m.startTransform.scale, c.root.scale)>>
            ELSE <<>>
      o4 == IF (canTranslate(m) \/ canRotate(m) \/ canScale(m)) /\ me # NoEvent
            THEN <<MEv(me, m.interactors, m.startTransform, Snapshot(c.root))>>
            ELSE <<>>
  IN  [c EXCEPT !.out = c.out \o o1 \o o2 \o o3 \o o4]

invokeEvents(c, te, re, se, me) ==
  LET m == c.m
      o1 == IF canTranslate(m) /\ te # NoEvent
            THEN <<MEv(te, m.interactors, m.startTransform.position, c.root.position)>>
            ELSE <<>>
      o2 == IF canRotate(m) /\ re # NoEvent
            THEN <<MEv(re, m.interactors, m.startTransform.rotation, c.root.rotation)>>
            ELSE <<>>
      o3 == IF canScale(m) /\ se # NoEvent
            THEN <<MEv(se, m.interactors, m.startTransform.scale, c.root.scale)>>
            ELSE <<>>
      o4 == IF (canTranslate(m) \/ canRotate(m) \/ canScale(m)) /\ me # NoEvent
            THEN <<MEv(me, m.interactors, m.startTransform, Snapshot(c.root))>>
            ELSE <<>>
  IN  [c EXCEPT !.out = c.out \o o1 \o o2 \o o3 \o o4]

\* onTriggerToggle without the End events of a manipulation that goes on
onTriggerToggle_NoEnd(c, ti, inter, frame) ==
  IF ~c.m.enabled \/ (~canTranslate(c.m) /\ ~canRotate(c.m) /\ ~canScale(c.m)) THEN c
  ELSE
    LET previousInteractorsCount == Len(c.m.interactors)
        currentInteractors == getTriggeringInteractors(ti, inter)
        currentInteractorsCount == Len(currentInteractors)
        wasManipulating == previousInteractorsCount > 0
        isManipulating == currentInteractorsCount > 0
        countChanged == previousInteractorsCount # currentInteractorsCount
        wasScaling == previousInteractorsCount = 2
        isScaling == currentInteractorsCount = 2
    IN
    IF isManipulating THEN
      LET c1 == c
          c2 == [c1 EXCEPT !.m.interactors = currentInteractors]
          c3 == updateStartValues(c2, inter, frame)
      IN  invokeEvents(c3, "onTranslationStart", "onRotationStart",
                       IF isScaling THEN "onScaleStart" ELSE NoEvent,
                       "onManipulationStart")
    ELSE IF wasManipulating THEN
      LET c1 == invokeEvents(c, "onTranslationEnd", "onRotationEnd",
                             IF wasScaling THEN "onScaleEnd" ELSE NoEvent,
                             "onManipulationEnd")
      IN  [c1 EXCEPT !.m.interactors = currentInteractors]
    ELSE [c EXCEPT !.m.interactors = currentInteractors]

\* onTriggerToggle invoking the Start events before updateStartValues
onTriggerToggle_StartFirst(c, ti, inter, frame) ==
  IF ~c.m.enabled \/ (~canTranslate(c.m) /\ ~canRotate(c.m) /\ ~canScale(c.m)) THEN c
  ELSE
    LET previousInteractorsCount == Len(c.m.interactors)
        currentInteractors == getTriggeringInteractors(ti, inter)
        currentInteractorsCount == Len(currentInteractors)
        wasManipulating == previousInteractorsCount > 0
        isManipulating == currentInteractorsCount > 0
        countChanged == previousInteractorsCount # currentInteractorsCount
        wasScaling == previousInteractorsCount = 2
        isScaling == currentInteractorsCount = 2
    IN
    IF isManipulating THEN
      LET c1 == IF wasManipulating /\ countChanged
                THEN invokeEvents(c, "onTranslationEnd", "onRotationEnd",
                                  IF wasScaling THEN "onScaleEnd" ELSE NoEvent,
                                  "onManipulationEnd")
                ELSE c
          c2 == [c1 EXCEPT !.m.interactors = currentInteractors]
          c3 == invokeEvents(c2, "onTranslationStart", "onRotationStart",
                             IF isScaling THEN "onScaleStart" ELSE NoEvent,
                             "onManipulationStart")
      IN  updateStartValues(c3, inter, frame)
    ELSE IF wasManipulating THEN
      LET c1 == invokeEvents(c, "onTranslationEnd", "onRotationEnd",
                             IF wasScaling THEN "onScaleEnd" ELSE NoEvent,
                             "onManipulationEnd")
      IN  [c1 EXCEPT !.m.interactors = currentInteractors]
    ELSE [c EXCEPT !.m.interactors = currentInteractors]

\* onTriggerToggle that caches the interactors before it invokes the End events
onTriggerToggle_ListFirst(c, ti, inter, frame) ==
  IF ~c.m.enabled \/ (~canTranslate(c.m) /\ ~canRotate(c.m) /\ ~canScale(c.m)) THEN c
  ELSE
    LET previousInteractorsCount == Len(c.m.interactors)
        currentInteractors == getTriggeringInteractors(ti, inter)
        currentInteractorsCount == Len(currentInteractors)
        wasManipulating == previousInteractorsCount > 0
        isManipulating == currentInteractorsCount > 0
        countChanged == previousInteractorsCount # currentInteractorsCount
        wasScaling == previousInteractorsCount = 2
        isScaling == currentInteractorsCount = 2
        c0 == [c EXCEPT !.m.interactors = currentInteractors]
    IN
    IF isManipulating THEN
      LET c1 == IF wasManipulating /\ countChanged
                THEN invokeEvents(c0, "onTranslationEnd", "onRotationEnd",
                                  IF wasScaling THEN "onScaleEnd" ELSE NoEvent,
                                  "onManipulationEnd")
                ELSE c0
          c3 == updateStartValues(c1, inter, frame)
      IN  invokeEvents(c3, "onTranslationStart", "onRotationStart",
                       IF isScaling THEN "onScaleStart" ELSE NoEvent,
                       "onManipulationStart")
    ELSE IF wasManipulating THEN
      invokeEvents(c0, "onTranslationEnd", "onRotationEnd",
                   IF wasScaling THEN "onScaleEnd" ELSE NoEvent,
                   "onManipulationEnd")
    ELSE c0

onTriggerToggle(c, ti, inter, frame) ==
  IF ~c.m.enabled \/ (~canTranslate(c.m) /\ ~canRotate(c.m) /\ ~canScale(c.m)) THEN c
  ELSE
    LET previousInteractorsCount == Len(c.m.interactors)
        currentInteractors == getTriggeringInteractors(ti, inter)
        currentInteractorsCount == Len(currentInteractors)
        wasManipulating == previousInteractorsCount > 0
        isManipulating == currentInteractorsCount > 0
        countChanged == previousInteractorsCount # currentInteractorsCount
        wasScaling == previousInteractorsCount = 2
        isScaling == currentInteractorsCount = 2
    IN
    IF isManipulating THEN
      LET c1 == IF wasManipulating /\ countChanged
                THEN invokeEvents(c, "onTranslationEnd", "onRotationEnd",
                                  IF wasScaling THEN "onScaleEnd" ELSE NoEvent,
                                  "onManipulationEnd")
                ELSE c
          c2 == [c1 EXCEPT !.m.interactors = currentInteractors]
          c3 == updateStartValues(c2, inter, frame)
      IN  invokeEvents(c3, "onTranslationStart", "onRotationStart",
                       IF isScaling THEN "onScaleStart" ELSE NoEvent,
                       "onManipulationStart")
    ELSE IF wasManipulating THEN
      LET c1 == invokeEvents(c, "onTranslationEnd", "onRotationEnd",
                             IF wasScaling THEN "onScaleEnd" ELSE NoEvent,
                             "onManipulationEnd")
      IN  [c1 EXCEPT !.m.interactors = currentInteractors]
    ELSE [c EXCEPT !.m.interactors = currentInteractors]

-----------------------------------------------------------------------------
(* InteractableManipulation: the per-frame solvers *)

MOBILE_DRAG_MULTIPLIER == <<1, 2>>
STRETCH_SMOOTH_SPEED == 15
MAX_USER_ARM_EXTENSION_CM == 100
MIN_DRAG_DISTANCE_CM == <<1, 10000>>

\* OneEuroFilterVec3.filter: the first sample after a reset is returned as it
\* is; a later one is blended with the previous output by the factor alpha in
\* (0, 1] that the filter derives from the sample time and the signal speed.
\* Returns the output, which is also the filter's new state.
FilterVec3(prev, sample, alpha) ==
  IF prev = Null THEN sample
  ELSE VAdd(prev, UniformScale(VSub(sample, prev), alpha))

\* OneEuroFilterQuat.filter: as FilterVec3 with a spherical blend; of the
\* blends only the end points are rotations of the cube.
FilterQuat(prev, sample, alpha) ==
  IF prev = Null \/ alpha = One THEN sample ELSE prev

\* updatePosition without the axis locks
updatePosition_NoLock(c, newPosition, useFilter, frame) ==
  IF newPosition = Null THEN c
  ELSE
    LET final == IF useFilter THEN FilterVec3(c.m.translateFilter, newPosition, frame.alpha)
                 ELSE newPosition
    IN  [c EXCEPT !.root.position = final,
                  !.m.translateFilter = IF useFilter THEN final ELSE @]

\* updatePosition passing the position through the filter whatever useFilter is
updatePosition_Filtered(c, newPosition, useFilter, frame) ==
  IF newPosition = Null THEN c
  ELSE
    LET world == c.root.position
        locked == << IF ~c.m.enableXTranslation THEN world[1] ELSE newPosition[1],
                     IF ~c.m.enableYTranslation THEN world[2] ELSE newPosition[2],
                     IF ~c.m.enableZTranslation THEN world[3] ELSE newPosition[3] >>
        final == FilterVec3(c.m.translateFilter, locked, frame.alpha)
    IN  [c EXCEPT !.root.position = final,
                  !.m.translateFilter = final]

updatePosition(c, newPosition, useFilter, frame) ==
  IF newPosition = Null THEN c
  ELSE
    LET world == c.root.position
        locked == << IF ~c.m.enableXTranslation THEN world[1] ELSE newPosition[1],
                     IF ~c.m.enableYTranslation THEN world[2] ELSE newPosition[2],
                     IF ~c.m.enableZTranslation THEN world[3] ELSE newPosition[3] >>
        final == IF useFilter THEN FilterVec3(c.m.translateFilter, locked, frame.alpha)
                 ELSE locked
    IN  [c EXCEPT !.root.position = final,
                  !.m.translateFilter = IF useFilter THEN final ELSE @]

updateRotation(c, newRotation, useFilter, frame) ==
  IF newRotation = Null THEN c
  ELSE
    LET final == IF useFilter THEN FilterQuat(c.m.rotationFilter, newRotation, frame.alpha)
                 ELSE newRotation
    IN  [c EXCEPT !.root.rotation = final,
                  !.m.rotationFilter = IF useFilter THEN final ELSE @]

\* returns the stretch amount and the fields as the call leaves them
calculateStretchFactor(m, i, s, frame) ==
  IF m.enableStretchZ = FALSE THEN [value |-> One, m |-> m]
  ELSE
    LET startPoint == IF s.startPoint = Null THEN VecZero ELSE s.startPoint
        currDistance == IF s.distanceToTarget = Null THEN Zero ELSE s.distanceToTarget
    IN
    With(Mul(MultiplyVec3(Invert(frame.cameraRotation), startPoint)[3], R(-1)),
         LAMBDA interactorDistance :
    With(Max2(MIN_DRAG_DISTANCE_CM, Sub(s.maxRaycastDistance, R(MAX_USER_ARM_EXTENSION_CM))),
         LAMBDA maxDragDistance :
    With(Add(Mul(Div(m.zStretchFactorMax, maxDragDistance), currDistance), m.zStretchFactorMin),
         LAMBDA distanceFactor :
    With(Add(Neg(Length(m.offsetPosition)), One), LAMBDA minStretch :
    With(Max2(minStretch, Sub(Add(Neg(Length(m.offsetPosition)), maxDragDistance), One)),
         LAMBDA maxStretch :
      LET m1 == IF m.startStretchInteractorDistance = Zero
                THEN [m EXCEPT !.startStretchInteractorDistance = interactorDistance]
                ELSE m
          dragAmount == Sub(interactorDistance, m1.startStretchInteractorDistance)
      IN
      With(Clamp(Mul(dragAmount, distanceFactor), minStretch, maxStretch),
           LAMBDA finalStretchAmount :
        IF BitAnd(InputType(i), Mobile) # 0 THEN
          LET mobileDragVector == IF s.touchpadDragVector # Null THEN s.touchpadDragVector
                                  ELSE VecZero
              mobileMoveAmount == IF mobileDragVector[3] = Zero
                                  THEN Mul(mobileDragVector[2], MOBILE_DRAG_MULTIPLIER)
                                  ELSE Zero
              accumulated == Add(m1.mobileStretch, Mul(mobileMoveAmount, distanceFactor))
          IN  With(Min2(Sub(maxStretch, finalStretchAmount),
                        Max2(Sub(minStretch, finalStretchAmount), accumulated)),
                   LAMBDA mobileStretch :
                [value |-> Add(finalStretchAmount, mobileStretch),
                 m |-> [m1 EXCEPT !.mobileStretch = mobileStretch]])
        ELSE [value |-> finalStretchAmount, m |-> m1]))))))

singleInteractorTransform(c, i, inter, frame) ==
  LET s == inter[i] IN
  IF ~isInteractorValid(s) THEN c
  ELSE
    LET m == c.m
        limitRotation == Multiply(limitQuatRotation(m, s.orientation), m.offsetRotation)
        deltaRotation == IF m.rotationAxis = "All"
                         THEN Multiply(limitRotation, Invert(c.root.rotation))
                         ELSE QuatIdentity
        delta == IF m.enableTranslation /\ m.cachedTargetingMode # "Direct"
                 THEN QuatIdentity ELSE deltaRotation
    IN
    With(IF m.enableTranslation THEN
           IF m.cachedTargetingMode = "Direct" THEN
             updatePosition(c,
               VAdd(s.startPoint,
                    IF canRotate(m)
                    THEN MultiplyVec3(Multiply(limitRotation, Invert(m.startTransform.rotation)),
                                      m.offsetPosition)
                    ELSE m.offsetPosition),
               m.useFilter, frame)
           ELSE
             With(calculateStretchFactor(m, i, s, frame), LAMBDA stretch :
             With(Lerp(m.smoothedStretch, stretch.value,
                       Mul(frame.deltaTime, R(STRETCH_SMOOTH_SPEED))), LAMBDA smoothedStretch :
               LET offset == VAdd(UniformScale(s.direction, Length(m.offsetPosition)),
                                  m.hitPointToTransform)
                   newPosition == VAdd(VAdd(s.startPoint, offset),
                                       UniformScale(s.direction, smoothedStretch))
               IN  updatePosition(
                     [c EXCEPT !.m = [stretch.m EXCEPT !.smoothedStretch = smoothedStretch]],
                     newPosition, m.useFilter, frame)))
         ELSE c, LAMBDA c1 :
      IF canRotate(m) /\ m.cachedTargetingMode = "Direct"
      THEN updateRotation(c1, Multiply(delta, c1.root.rotation), m.useFilter, frame)
      ELSE c1)

\* clampUniformScale that clamps every axis by itself
clampUniformScale_PerAxis(scale, minScale, maxScale) ==
  [k \in 1..3 |-> Min2(Max2(scale[k], minScale[k]), maxScale[k])]

clampUniformScale(scale, minScale, maxScale) ==
  With(Min3(Div(scale[1], minScale[1]), Div(scale[2], minScale[2]),
            Div(scale[3], minScale[3])), LAMBDA minRatio :
  With(Min3(Div(scale[1], maxScale[1]), Div(scale[2], maxScale[2]),
            Div(scale[3], maxScale[3])), LAMBDA maxRatio :
  With(IF Lt(minRatio, One) THEN UniformScale(scale, Div(One, minRatio)) ELSE scale,
       LAMBDA scale1 :
    IF Gt(maxRatio, One) THEN UniformScale(scale1, Div(One, maxRatio)) ELSE scale1)))

\* clampBuiltNewVector that also counts a scale that meets a limit
clampBuiltNewVector_AtLimit(scale, minScale, maxScale) ==
  With(Min3(Div(scale[1], minScale[1]), Div(scale[2], minScale[2]),
            Div(scale[3], minScale[3])), LAMBDA minRatio :
  With(Min3(Div(scale[1], maxScale[1]), Div(scale[2], maxScale[2]),
            Div(scale[3], maxScale[3])), LAMBDA maxRatio :
    Le(minRatio, One) \/ Le(One, maxRatio)))

\* newScale !== finalScale compares references: clampUniformScale returns its
\* argument itself unless one of its two branches built a new vector
clampBuiltNewVector(scale, minScale, maxScale) ==
  LET minRatio == Min3(Div(scale[1], minScale[1]), Div(scale[2], minScale[2]),
                       Div(scale[3], minScale[3]))
      maxRatio == Min3(Div(scale[1], maxScale[1]), Div(scale[2], maxScale[2]),
                       Div(scale[3], maxScale[3]))
  IN  Lt(minRatio, One) \/ Gt(maxRatio, One)

\* setScale writing the scale it is given
setScale_Unclamped(c, newScale, useFilter, frame) ==
  IF ~canScale(c.m) THEN c
  ELSE
    LET final == IF useFilter THEN FilterVec3(c.m.scaleFilter, newScale, frame.alpha)
                 ELSE newScale
    IN  [c EXCEPT !.root.scale = final,
                  !.m.scaleFilter = IF useFilter THEN final ELSE @]

setScale(c, newScale, useFilter, frame) ==
  IF ~canScale(c.m) THEN c
  ELSE
    With(UniformScale(c.m.originalLocalTransform.scale, c.m.minimumScaleFactor),
         LAMBDA minScale :
    With(UniformScale(c.m.originalLocalTransform.scale, c.m.maximumScaleFactor),
         LAMBDA maxScale :
    With(clampUniformScale(newScale, minScale, maxScale), LAMBDA clamped :
    With(IF useFilter THEN FilterVec3(c.m.scaleFilter, clamped, frame.alpha) ELSE clamped,
         LAMBDA final :
      LET o == IF clampBuiltNewVector(newScale, minScale, maxScale)
               THEN <<MEv("onScaleLimitReached", c.m.interactors, Null, clamped)>>
               ELSE <<>>
      IN  [c EXCEPT !.out = c.out \o o,
                    !.root.scale = final,
                    !.m.scaleFilter = IF useFilter THEN final ELSE @]))))

dualInteractorsTransform(c, inter, frame) ==
  LET s1 == inter[c.m.interactors[1]]
      s2 == inter[c.m.interactors[2]]
      isDirect == c.m.cachedTargetingMode = "Direct"
  IN
  IF s1.startPoint = Null \/ s2.startPoint = Null THEN c
  ELSE
    LET interactorMidPoint == UniformScale(VAdd(s1.startPoint, s2.startPoint), <<1, 2>>)
        dualDistance == Distance(s1.startPoint, s2.startPoint)
    IN
    With(getDualInteractorDirection(c.m, s1, s2, frame.any), LAMBDA dual :
      LET c0 == [c EXCEPT !.m = dual.m] IN
      IF dual.rotation = Null THEN c0
      ELSE
        With(IF canRotate(c0.m)
             THEN updateRotation(c0, Multiply(dual.rotation, c0.m.offsetRotation),
                                 c0.m.useFilter, frame)
             ELSE c0, LAMBDA c1 :
        With(IF c1.m.enableTranslation THEN
               IF isDirect THEN
                 updatePosition(c1,
                   IF canRotate(c1.m)
                   THEN VAdd(interactorMidPoint,
                             MultiplyVec3(Multiply(c1.root.rotation,
                                                   Invert(c1.m.startTransform.rotation)),
                                          c1.m.offsetPosition))
                   ELSE VAdd(interactorMidPoint, c1.m.offsetPosition),
                   c1.m.useFilter, frame)
               ELSE
                 LET dualRaycastDistance ==
                       Mul(Add(s1.maxRaycastDistance, s2.maxRaycastDistance), <<1, 2>>)
                     zDistance == Min2(dualRaycastDistance, Length(c1.m.offsetPosition))
                     direction1 == IF s1.direction = Null THEN VecZero ELSE s1.direction
                     direction2 == IF s2.direction = Null THEN VecZero ELSE s2.direction
                     dualDirection == UniformScale(VAdd(direction1, direction2), <<1, 2>>)
                     finalOffset == VAdd(UniformScale(dualDirection, zDistance),
                                         c1.m.hitPointToTransform)
                 IN  updatePosition(c1, VAdd(interactorMidPoint, finalOffset),
                                    c1.m.useFilter, frame)
             ELSE c1, LAMBDA c2 :
          IF canScale(c2.m) /\ c2.m.initialInteractorDistance # Zero THEN
            LET distanceDifference == Sub(dualDistance, c2.m.initialInteractorDistance)
                uniformScalingFactor ==
                  Add(One, Div(distanceDifference, c2.m.initialInteractorDistance))
                updatedObjectScale == UniformScale(c2.m.initialObjectScale, uniformScalingFactor)
            IN  With(setScale(c2, updatedObjectScale, c2.m.useFilter, frame), LAMBDA c3 :
                  [c3 EXCEPT !.out = c3.out \o
                     <<MEv("onScaleUpdate", c3.m.interactors, c3.m.startTransform.scale,
                           c3.root.scale)>>])
          ELSE c2)))

\* log.w: a warning of the component, kept with the events of the handler
\* (the verbose and error lines of the log are not modelled)
Warn(c, message) ==
  [c EXCEPT !.out = Append(c.out, [ev |-> "log.w", by |-> "log", interactors |-> <<>>,
                                   start |-> Null, current |-> message])]

\* onTriggerUpdate that treats every number of interactors as supported
onTriggerUpdate_AnyCount(c, inter, frame) ==
  IF ~c.m.enabled \/ (~canTranslate(c.m) /\ ~canRotate(c.m) /\ ~canScale(c.m)) THEN c
  ELSE IF Len(c.m.interactors) = 1
  THEN invokeEvents(singleInteractorTransform(c, c.m.interactors[1], inter, frame),
                    "onTranslationUpdate", "onRotationUpdate", NoEvent, "onManipulationUpdate")
  ELSE IF Len(c.m.interactors) = 2
  THEN invokeEvents(dualInteractorsTransform(c, inter, frame),
                    "onTranslationUpdate", "onRotationUpdate", NoEvent, "onManipulationUpdate")
  ELSE invokeEvents(c, "onTranslationUpdate", "onRotationUpdate", NoEvent,
                    "onManipulationUpdate")

\* onTriggerUpdate that invokes nothing in a frame with an invalid interactor
onTriggerUpdate_SkipInvalid(c, inter, frame) ==
  IF ~c.m.enabled \/ (~canTranslate(c.m) /\ ~canRotate(c.m) /\ ~canScale(c.m)) THEN c
  ELSE IF \E k \in DOMAIN c.m.interactors : ~isInteractorValid(inter[c.m.interactors[k]])
  THEN c
  ELSE IF Len(c.m.interactors) = 1
  THEN invokeEvents(singleInteractorTransform(c, c.m.interactors[1], inter, frame),
                    "onTranslationUpdate", "onRotationUpdate", NoEvent, "onManipulationUpdate")
  ELSE IF Len(c.m.interactors) = 2
  THEN invokeEvents(dualInteractorsTransform(c, inter, frame),
                    "onTranslationUpdate", "onRotationUpdate", NoEvent, "onManipulationUpdate")
  ELSE Warn(c, <<Len(c.m.interactors), "interactors found for onTriggerUpdate. This is not supported.">>)

onTriggerUpdate(c, inter, frame) ==
  IF ~c.m.enabled \/ (~canTranslate(c.m) /\ ~canRotate(c.m) /\ ~canScale(c.m)) THEN c
  ELSE IF Len(c.m.interactors) = 1
  THEN invokeEvents(singleInteractorTransform(c, c.m.interactors[1], inter, frame),
                    "onTranslationUpdate", "onRotationUpdate", NoEvent, "onManipulationUpdate")
  ELSE IF Len(c.m.interactors) = 2
  THEN invokeEvents(dualInteractorsTransform(c, inter, frame),
                    "onTranslationUpdate", "onRotationUpdate", NoEvent, "onManipulationUpdate")
  ELSE Warn(c, <<Len(c.m.interactors), "interactors found for onTriggerUpdate. This is not supported.">>)

-----------------------------------------------------------------------------
(* Interactable: the handlers.  c = [hov, trig, m, root, out]; i is the    *)
(* interactor of eventArgs.  An event is invoked synchronously: the        *)
(* callbacks InteractableManipulation.setupCallbacks added to it run       *)
(* before the handler continues.                                           *)

Emit(c, e) == [c EXCEPT !.out = Append(c.out, e)]

\* the callbacks of setupCallbacks, present until onDestroy removes them
Subscribed(c, name) == name \in c.m.unsubscribeBag

\* hoverEnter with the bit set before the test for None
hoverEnter_BitFirst(c, i) ==
  LET c1 == [c EXCEPT !.hov = BitOr(c.hov, InputType(i))]
      c2 == IF c1.hov = None THEN Emit(c1, Ev("onHoverEnter", i)) ELSE c1
  IN  Emit(c2, Ev("onInteractorHoverEnter", i))

\* hoverEnter invoking the aggregate event after the event of the interactor
hoverEnter_AggregateLast(c, i) ==
  LET c1 == [c EXCEPT !.hov = BitOr(c.hov, InputType(i))]
      c2 == Emit(c1, Ev("onInteractorHoverEnter", i))
  IN  IF c.hov = None THEN Emit(c2, Ev("onHoverEnter", i)) ELSE c2

hoverEnter(c, i) ==
  LET c1 == IF c.hov = None THEN Emit(c, Ev("onHoverEnter", i)) ELSE c
      c2 == [c1 EXCEPT !.hov = BitOr(c.hov, InputType(i))]
  IN  Emit(c2, Ev("onInteractorHoverEnter", i))

\* hoverUpdate without the test for None
hoverUpdate_Unguarded(c, i) ==
  Emit(c, Ev("onHoverUpdate", i))

hoverUpdate(c, i) ==
  IF c.hov = None THEN c ELSE Emit(c, Ev("onHoverUpdate", i))

\* hoverExit clearing the whole mask
hoverExit_ClearAll(c, i) ==
  LET c1 == [c EXCEPT !.hov = None]
      c2 == Emit(c1, Ev("onInteractorHoverExit", i))
  IN  IF c2.hov = None THEN Emit(c2, Ev("onHoverExit", i)) ELSE c2

\* hoverExit testing the mask for None before it clears the bit
hoverExit_TestFirst(c, i) ==
  LET c1 == [c EXCEPT !.hov = BitAndNot(c.hov, InputType(i))]
      c2 == Emit(c1, Ev("onInteractorHoverExit", i))
  IN  IF c.hov = None THEN Emit(c2, Ev("onHoverExit", i)) ELSE c2

hoverExit(c, i) ==
  LET c1 == [c EXCEPT !.hov = BitAndNot(c.hov, InputType(i))]
      c2 == Emit(c1, Ev("onInteractorHoverExit", i))
  IN  IF c2.hov = None THEN Emit(c2, Ev("onHoverExit", i)) ELSE c2

\* dragStartOrUpdate without the test of currentDragVector
dragStartOrUpdate_IgnoreCurrent(c, i, inter) ==
  IF inter[i].previousDragVector = Null THEN Emit(c, Ev("onDragStart", i))
  ELSE Emit(c, Ev("onDragUpdate", i))

dragStartOrUpdate(c, i, inter) ==
  IF inter[i].currentDragVector = Null THEN c
  ELSE IF inter[i].previousDragVector = Null THEN Emit(c, Ev("onDragStart", i))
  ELSE Emit(c, Ev("onDragUpdate", i))

dragEnd(c, i, inter) ==
  IF inter[i].previousDragVector = Null THEN c ELSE Emit(c, Ev("onDragEnd", i))

\* triggerStart invoking onInteractorTriggerStart before it sets the bit
triggerStart_EventFirst(c, i, inter, frame) ==
  LET c1 == IF c.trig = None THEN Emit(c, Ev("onTriggerStart", i)) ELSE c
      c2 == Emit(c1, Ev("onInteractorTriggerStart", i))
      c3 == IF Subscribed(c2, "onInteractorTriggerStart")
            THEN onTriggerToggle(c2, c2.trig, inter, frame)
            ELSE c2
  IN  [c3 EXCEPT !.trig = BitOr(c.trig, InputType(i))]

triggerStart(c, i, inter, frame) ==
  LET c1 == IF c.trig = None THEN Emit(c, Ev("onTriggerStart", i)) ELSE c
      c2 == [c1 EXCEPT !.trig = BitOr(c.trig, InputType(i))]
      c3 == Emit(c2, Ev("onInteractorTriggerStart", i))
  IN  IF Subscribed(c3, "onInteractorTriggerStart")
      THEN onTriggerToggle(c3, c3.trig, inter, frame)
      ELSE c3

triggerUpdate(c, i, inter, frame) ==
  LET c1 == Emit(c, Ev("onTriggerUpdate", i))
      c2 == IF Subscribed(c1, "onTriggerUpdate") THEN onTriggerUpdate(c1, inter, frame)
            ELSE c1
  IN  dragStartOrUpdate(c2, i, inter)

\* triggerEnd resetting the whole mask, as triggerCanceled does
triggerEnd_ClearAll(c, i, inter, frame) ==
  LET c1 == [c EXCEPT !.trig = None]
      c2 == Emit(c1, Ev("onInteractorTriggerEnd", i))
  IN  With(IF Subscribed(c2, "onInteractorTriggerEnd")
           THEN onTriggerToggle(c2, c2.trig, inter, frame)
           ELSE c2, LAMBDA c3 :
        dragEnd(IF c3.trig = None THEN Emit(c3, Ev("onTriggerEnd", i)) ELSE c3, i, inter))

\* triggerEnd that ends the drag only together with the aggregate end
triggerEnd_DragWithAggregate(c, i, inter, frame) ==
  LET c1 == [c EXCEPT !.trig = BitAndNot(c.trig, InputType(i))]
      c2 == Emit(c1, Ev("onInteractorTriggerEnd", i))
  IN  With(IF Subscribed(c2, "onInteractorTriggerEnd")
           THEN onTriggerToggle(c2, c2.trig, inter, frame)
           ELSE c2, LAMBDA c3 :
        IF c3.trig = None THEN dragEnd(Emit(c3, Ev("onTriggerEnd", i)), i, inter) ELSE c3)

triggerEnd(c, i, inter, frame) ==
  LET c1 == [c EXCEPT !.trig = BitAndNot(c.trig, InputType(i))]
      c2 == Emit(c1, Ev("onInteractorTriggerEnd", i))
  IN  With(IF Subscribed(c2, "onInteractorTriggerEnd")
           THEN onTriggerToggle(c2, c2.trig, inter, frame)
           ELSE c2, LAMBDA c3 :
        dragEnd(IF c3.trig = None THEN Emit(c3, Ev("onTriggerEnd", i)) ELSE c3, i, inter))

\* triggerCanceled that also invokes the end events of triggerEnd
triggerCanceled_WithEnd(c, i, inter, frame) ==
  LET c1 == [c EXCEPT !.trig = None]
      c2 == Emit(Emit(c1, Ev("onTriggerCanceled", i)), Ev("onTriggerEnd", i))
      c3 == IF Subscribed(c2, "onTriggerCanceled")
            THEN onTriggerToggle(c2, c2.trig, inter, frame)
            ELSE c2
  IN  dragEnd(c3, i, inter)

\* triggerCanceled clearing the bit of its interactor only, as triggerEnd does
triggerCanceled_OwnBit(c, i, inter, frame) ==
  LET c1 == [c EXCEPT !.trig = BitAndNot(c.trig, InputType(i))]
      c2 == Emit(c1, Ev("onTriggerCanceled", i))
      c3 == IF Subscribed(c2, "onTriggerCanceled")
            THEN onTriggerToggle(c2, c2.trig, inter, frame)
            ELSE c2
  IN  dragEnd(c3, i, inter)

triggerCanceled(c, i, inter, frame) ==
  LET c1 == [c EXCEPT !.trig = None]
      c2 == Emit(c1, Ev("onTriggerCanceled", i))
      c3 == IF Subscribed(c2, "onTriggerCanceled")
            THEN onTriggerToggle(c2, c2.trig, inter, frame)
            ELSE c2
  IN  dragEnd(c3, i, inter)

-----------------------------------------------------------------------------
(* The state after InteractableManipulation.onAwake *)

CachedTransform == [position |-> VecZero, rotation |-> QuatIdentity, scale |-> VecOne]

SetupCallbacks ==
  {"onInteractorTriggerStart", "onTriggerUpdate", "onTriggerCanceled",
   "onInteractorTriggerEnd"}

\* the scene: the manipulated object has a parent that stays where it is,
\* unturned and unscaled, so the local position is the world position
\* relative to the parent
ParentPosition == V(0, 5, 0)

getLocalPosition(t) == VSub(t.position, ParentPosition)
setLocalPosition(t, position) == [t EXCEPT !.position = VAdd(position, ParentPosition)]
setWorldPosition(t, position) == [t EXCEPT !.position = position]

\* resetPosition writing the local original in world space
resetPosition_WorldSpace(c, local) ==
  IF local THEN [c EXCEPT !.root = setWorldPosition(@, c.m.originalLocalTransform.position)]
  ELSE [c EXCEPT !.root = setWorldPosition(@, c.m.originalWorldTransform.position)]

resetPosition(c, local) ==
  IF local THEN [c EXCEPT !.root = setLocalPosition(@, c.m.originalLocalTransform.position)]
  ELSE [c EXCEPT !.root = setWorldPosition(@, c.m.originalWorldTransform.position)]

resetRotation(c, local) ==
  IF local THEN [c EXCEPT !.root.rotation = c.m.originalLocalTransform.rotation]
  ELSE [c EXCEPT !.root.rotation = c.m.originalWorldTransform.rotation]

resetScale(c, local) ==
  IF local THEN [c EXCEPT !.root.scale = c.m.originalLocalTransform.scale]
  ELSE [c EXCEPT !.root.scale = c.m.originalWorldTransform.scale]

\* the transform matrix is the composition of position, rotation and scale
resetTransform(c, local) ==
  IF local
  THEN [c EXCEPT !.root = [setLocalPosition(@, c.m.originalLocalTransform.position)
                             EXCEPT !.rotation = c.m.originalLocalTransform.rotation,
                                    !.scale = c.m.originalLocalTransform.scale]]
  ELSE [c EXCEPT !.root = [setWorldPosition(@, c.m.originalWorldTransform.position)
                             EXCEPT !.rotation = c.m.originalWorldTransform.rotation,
                                    !.scale = c.m.originalWorldTransform.scale]]

\* the fields as onAwake leaves them for the transform t of the root and the
\* inspector inputs cfg
Awake(t, cfg) ==
  [ enabled |-> TRUE,
    interactable |-> "this",
    enableTranslation |-> cfg.enableTranslation,
    enableRotation |-> cfg.enableRotation,
    enableScale |-> cfg.enableScale,
    minimumScaleFactor |-> cfg.minimumScaleFactor,
    maximumScaleFactor |-> cfg.maximumScaleFactor,
    enableStretchZ |-> cfg.enableStretchZ,
    zStretchFactorMin |-> cfg.zStretchFactorMin,
    zStretchFactorMax |-> cfg.zStretchFactorMax,
    useFilter |-> cfg.useFilter,
    enableXTranslation |-> cfg.enableXTranslation,
    enableYTranslation |-> cfg.enableYTranslation,
    enableZTranslation |-> cfg.enableZTranslation,
    rotationAxis |-> cfg.rotationAxis,
    unsubscribeBag |-> SetupCallbacks,
    originalWorldTransform |-> Snapshot(t),
    originalLocalTransform |-> [Snapshot(t) EXCEPT !.position = getLocalPosition(t)],
    startTransform |-> CachedTransform,
    offsetPosition |-> VecZero,
    offsetRotation |-> QuatIdentity,
    initialInteractorDistance |-> Zero,
    startStretchInteractorDistance |-> Zero,
    mobileStretch |-> Zero,
    smoothedStretch |-> Zero,
    initialObjectScale |-> VecZero,
    hitPointToTransform |-> VecZero,
    interactors |-> <<>>,
    cachedTargetingMode |-> "None",
    currentRotationSign |-> 0,
    currentUp |-> VecZero,
    translateFilter |-> Null,
    rotationFilter |-> Null,
    scaleFilter |-> Null ]

\* a filter field before onAwake creates the filter
Undefined == <<"undefined">>

\* the fields of a component that has not run onAwake: the initializers of
\* the private fields
Constructed(cfg) ==
  [Awake(CachedTransform, cfg) EXCEPT !.interactable = NoInteractable,
                                      !.unsubscribeBag = {},
                                      !.originalWorldTransform = CachedTransform,
                                      !.originalLocalTransform = CachedTransform,
                                      !.translateFilter = Undefined,
                                      !.rotationFilter = Undefined,
                                      !.scaleFilter = Undefined]

\* onAwake that looks for the Interactable after it has set the component up
onAwake_CheckLast(m, component, t) ==
  IF component = NoInteractable
  THEN [thrown |-> TRUE, m |-> [Awake(t, m) EXCEPT !.interactable = component]]
  ELSE [thrown |-> FALSE, m |-> Awake(t, m)]

\* onAwake on a scene object whose getComponent(Interactable) returns
\* component and whose root transform is t: the error thrown, if any, and the
\* fields as the call leaves them
onAwake(m, component, t) ==
  IF component = NoInteractable
  THEN [thrown |-> TRUE, m |-> [m EXCEPT !.interactable = component]]
  ELSE [thrown |-> FALSE, m |-> Awake(t, m)]

\* the inspector defaults of the component
DefaultInputs ==
  [ enableTranslation |-> TRUE, enableRotation |-> TRUE, enableScale |-> TRUE,
    minimumScaleFactor |-> <<1, 4>>, maximumScaleFactor |-> R(20),
    enableStretchZ |-> TRUE, zStretchFactorMin |-> R(1), zStretchFactorMax |-> R(12),
    useFilter |-> TRUE,
    enableXTranslation |-> TRUE, enableYTranslation |-> TRUE, enableZTranslation |-> TRUE,
    rotationAxis |-> "All" ]

\* an Interactor that targets nothing, with a valid pose at point p
IdleInteractor(p) ==
  [ currentInteractable |-> NoInteractable,
    currentTrigger |-> "None",
    startPoint |-> p,
    orientation |-> QuatIdentity,
    direction |-> V(0, 0, -1),
    distanceToTarget |-> R(100),
    active |-> TRUE,
    activeTargetingMode |-> "Direct",
    maxRaycastDistance |-> R(500),
    currentDragVector |-> Null,
    previousDragVector |-> Null,
    touchpadDragVector |-> Null ]

HomePoint(i) ==
  CASE i = "left" -> V(0, 0, 0)
    [] i = "right" -> V(10, 0, 0)
    [] i = "mobile" -> V(-10, 0, 0)

-----------------------------------------------------------------------------
(* InteractableColorFeedback: the component colours the meshes of the      *)
(* scene object on the aggregate events of its Interactable.               *)

\* the colour inputs, in hundredths; the hover colour is given a value of
\* its own
Colors ==
  [defaultColor |-> <<28, 28, 28, 100>>, hoverColor |-> <<35, 35, 35, 100>>,
   pinchedColor |-> <<46, 46, 46, 100>>, disabledColor |-> <<100, 100, 100, 0>>]

\* setupInteractableCallbacks with a callback of onHoverExit that leaves
\* the colour alone
setupInteractableCallbacks_NoExit(color, ev) ==
  CASE ev = "onHoverEnter" -> Colors.hoverColor
    [] ev = "onTriggerStart" -> Colors.pinchedColor
    [] ev = "onTriggerEnd" -> Colors.hoverColor
    [] ev = "onTriggerCanceled" -> Colors.defaultColor
    [] OTHER -> color

\* setupInteractableCallbacks: the colour after the callback added to the
\* event ev; the other events have no callback of this component
setupInteractableCallbacks(color, ev) ==
  CASE ev = "onHoverEnter" -> Colors.hoverColor
    [] ev = "onHoverExit" -> Colors.defaultColor
    [] ev = "onTriggerStart" -> Colors.pinchedColor
    [] ev = "onTriggerEnd" -> Colors.hoverColor
    [] ev = "onTriggerCanceled" -> Colors.defaultColor
    [] OTHER -> color

\* the colour after the events out of one handler, invoked in order
changeColor(color, out) ==
  LET F[k \in 0..Len(out)] ==
        IF k = 0 THEN color ELSE setupInteractableCallbacks(F[k - 1], out[k].ev)
  IN  F[Len(out)]

-----------------------------------------------------------------------------
(* HandVisual: one per hand; it shows and hides the hand mesh on the       *)
(* events of its TrackedHand and of the engine.                            *)

HandTypes == {"left", "right"}

\* the fields after onAwake; handMesh is handMesh.sceneObject.enabled and
\* scriptEnabled is the enabled flag the engine keeps for the component
HandVisualAtAwake ==
  [enabled |-> TRUE, isHandAvailable |-> FALSE, isPhoneInHand |-> FALSE,
   handMesh |-> FALSE, scriptEnabled |-> TRUE]

isVisible(h) == h.isHandAvailable /\ ~h.isPhoneInHand

setEnabled(h, enabled) == [h EXCEPT !.handMesh = enabled]

onEnabledChanged(h, enabled) ==
  LET h1 == [h EXCEPT !.enabled = enabled]
  IN  IF ~enabled THEN setEnabled(h1, FALSE) ELSE h1

onHandFound(h) ==
  LET h1 == [h EXCEPT !.isHandAvailable = TRUE]
  IN  IF h1.enabled /\ isVisible(h1) THEN setEnabled(h1, TRUE) ELSE h1

onHandLost(h) ==
  LET h1 == [h EXCEPT !.isHandAvailable = FALSE]
  IN  IF h1.enabled THEN setEnabled(h1, FALSE) ELSE h1

onPhoneInHandBegin(h) ==
  LET h1 == [h EXCEPT !.isPhoneInHand = TRUE]
  IN  IF h1.enabled THEN setEnabled(h1, FALSE) ELSE h1

onPhoneInHandEnd(h) ==
  LET h1 == [h EXCEPT !.isPhoneInHand = FALSE]
  IN  IF h1.enabled /\ isVisible(h1) THEN setEnabled(h1, TRUE) ELSE h1

defineOnEnableBehavior(h) == IF isVisible(h) THEN setEnabled(h, TRUE) ELSE h

defineOnDisableBehavior(h) == setEnabled(h, FALSE)

-----------------------------------------------------------------------------
(* Headlock: each property has a private field and is mirrored in the      *)
(* controller built by onAwake.                                            *)

\* the fields after onAwake builds the controller from them; the inputs
\* have the default values of their declarations
HeadlockAtAwake ==
  With([distance |-> R(50), xzEnabled |-> TRUE, xzEasing |-> R(1),
        yEnabled |-> TRUE, yEasing |-> R(1), translationBuffer |-> R(0),
        lockedPitch |-> TRUE, pitchEasing |-> R(1), pitchOffsetDegrees |-> R(0),
        pitchBufferDegrees |-> R(0), lockedYaw |-> TRUE, yawEasing |-> R(1),
        yawOffsetDegrees |-> R(0), yawBufferDegrees |-> R(0)],
       LAMBDA f :
         [field |-> f,
          controller |->
            [distance |-> f.distance, xzEnabled |-> f.xzEnabled,
             xzEasing |-> f.xzEasing, yEnabled |-> f.yEnabled,
             yEasing |-> f.yEasing, translationBuffer |-> f.translationBuffer,
             unlockPitch |-> ~f.lockedPitch, pitchEasing |-> f.pitchEasing,
             pitchOffsetDegrees |-> f.pitchOffsetDegrees,
             pitchBufferDegrees |-> f.pitchBufferDegrees,
             unlockYaw |-> ~f.lockedYaw, yawEasing |-> f.yawEasing,
             yawOffsetDegrees |-> f.yawOffsetDegrees,
             yawBufferDegrees |-> f.yawBufferDegrees]])

\* the body the setters share: return if value equals the field compared,
\* else assign the private field and the property of the controller
Assign(h, compared, name, value, property, mirrored) ==
  IF value = h.field[compared] THEN h
  ELSE [h EXCEPT !.field[name] = value, !.controller[property] = mirrored]

Properties ==
  {"distance", "xzEnabled", "xzEasing", "yEnabled", "yEasing",
   "translationBuffer", "lockedPitch", "pitchEasing", "pitchOffsetDegrees",
   "pitchBufferDegrees", "lockedYaw", "yawEasing", "yawOffsetDegrees",
   "yawBufferDegrees"}

\* the setter of the property name
set(h, name, v) ==
  CASE name = "distance" -> Assign(h, "distance", "distance", v, "distance", v)
    [] name = "xzEnabled" -> Assign(h, "xzEnabled", "xzEnabled", v, "xzEnabled", v)
    [] name = "xzEasing" -> Assign(h, "distance", "xzEasing", v, "xzEasing", v)
    [] name = "yEnabled" -> Assign(h, "yEnabled", "yEnabled", v, "yEnabled", v)
    [] name = "yEasing" -> Assign(h, "yEasing", "yEasing", v, "yEasing", v)
    [] name = "translationBuffer" ->
         Assign(h, "translationBuffer", "translationBuffer", v, "translationBuffer", v)
    [] name = "lockedPitch" -> Assign(h, "lockedPitch", "lockedPitch", v, "unlockPitch", ~v)
    [] name = "pitchOffsetDegrees" ->
         Assign(h, "pitchOffsetDegrees", "pitchOffsetDegrees", v, "pitchOffsetDegrees", v)
    [] name = "pitchEasing" -> Assign(h, "pitchEasing", "pitchEasing", v, "pitchEasing", v)
    [] name = "pitchBufferDegrees" ->
         Assign(h, "pitchBufferDegrees", "pitchBufferDegrees", v, "pitchBufferDegrees", v)
    [] name = "lockedYaw" -> Assign(h, "lockedYaw", "lockedYaw", v, "unlockYaw", ~v)
    [] name = "yawOffsetDegrees" ->
         Assign(h, "yawOffsetDegrees", "yawOffsetDegrees", v, "yawOffsetDegrees", v)
    [] name = "yawEasing" -> Assign(h, "yawEasing", "yawEasing", v, "yawEasing", v)
    [] name = "yawBufferDegrees" ->
         Assign(h, "yawBufferDegrees", "yawBufferDegrees", v, "yawBufferDegrees", v)

\* the getter of the property name
get(h, name) == h.field[name]

\* the three helper components after their construction
HelpersAtAwake ==
  /\ baseColor = Colors.defaultColor
  /\ handVisual = [i \in HandTypes |-> HandVisualAtAwake]
  /\ headlock = HeadlockAtAwake

-----------------------------------------------------------------------------
(* Actions: one per call of the dispatcher or of a script *)

Cur ==
  [hov |-> hoveringInteractor, trig |-> triggeringInteractor, m |-> manip,
   root |-> root, out |-> <<>>]

\* monitor: is a manipulation Start event still unmatched after the events out
SessionAfter(open, out) ==
  LET F[k \in 0..Len(out)] ==
        IF k = 0 THEN open
        ELSE IF out[k].ev = "onManipulationStart" THEN TRUE
        ELSE IF out[k].ev = "onManipulationEnd" THEN FALSE
        ELSE F[k - 1]
  IN  F[Len(out)]

Commit(c, op, i) ==
  /\ hoveringInteractor' = c.hov
  /\ triggeringInteractor' = c.trig
  /\ UNCHANGED allowMultipleInteractors
  /\ manip' = c.m
  /\ root' = c.root
  /\ emitted' = c.out
  /\ lastCall' = [op |-> op, by |-> i]
  /\ session' = SessionAfter(session, c.out)
  /\ baseColor' = changeColor(baseColor, c.out)
  /\ UNCHANGED <<handVisual, headlock>>

Hovers(i) == interactor[i].currentInteractable = "this"
Triggers(i) == Hovers(i) /\ interactor[i].currentTrigger # "None"

\* the interactor starts to target the Interactable
HoverEnter(i) ==
  /\ ~Hovers(i)
  /\ interactor' = [interactor EXCEPT ![i].currentInteractable = "this"]
  /\ Commit(hoverEnter(Cur, i), "hoverEnter", i)

HoverUpdate(i) ==
  /\ Hovers(i)
  /\ interactor' = interactor
  /\ Commit(hoverUpdate(Cur, i), "hoverUpdate", i)

\* a caller other than the dispatcher calls hoverUpdate, whether or not the
\* interactor hovers
StrayHoverUpdate(i) ==
  /\ interactor' = interactor
  /\ Commit(hoverUpdate(Cur, i), "hoverUpdate", i)

\* the interactor stops targeting the Interactable
HoverExit(i) ==
  /\ Hovers(i)
  /\ ~Triggers(i)
  /\ interactor' = [interactor EXCEPT ![i].currentInteractable = NoInteractable]
  /\ Commit(hoverExit(Cur, i), "hoverExit", i)

TriggerStart(i, frame) ==
  /\ Hovers(i)
  /\ ~Triggers(i)
  /\ interactor' = [interactor EXCEPT ![i].currentTrigger = "Pinch"]
  /\ Commit(triggerStart(Cur, i, interactor', frame), "triggerStart", i)

TriggerUpdate(i, frame) ==
  /\ Triggers(i)
  /\ interactor' = interactor
  /\ Commit(triggerUpdate(Cur, i, interactor', frame), "triggerUpdate", i)

TriggerEnd(i, frame) ==
  /\ Triggers(i)
  /\ interactor' = [interactor EXCEPT ![i].currentTrigger = "None"]
  /\ Commit(triggerEnd(Cur, i, interactor', frame), "triggerEnd", i)

\* the interactor loses its trigger (tracking lost, target changed)
TriggerCanceled(i, frame) ==
  /\ Triggers(i)
  /\ interactor' = [interactor EXCEPT ![i].currentTrigger = "None"]
  /\ Commit(triggerCanceled(Cur, i, interactor', frame), "triggerCanceled", i)

\* the tracking provider refreshes the pose of an interactor
Track(i, p, q, valid) ==
  /\ interactor' = [interactor EXCEPT ![i].startPoint = p,
                                      ![i].orientation = q,
                                      ![i].active = valid]
  /\ interactor' # interactor
  /\ emitted' = <<>>
  /\ lastCall' = [op |-> "track", by |-> i]
  /\ UNCHANGED <<baseColor, handVisual, headlock>>
  /\ UNCHANGED <<hoveringInteractor, triggeringInteractor, allowMultipleInteractors,
                 manip, root, session>>

\* the interactor refreshes its drag vectors
Drag(i, current, previous) ==
  /\ interactor' = [interactor EXCEPT ![i].currentDragVector = current,
                                      ![i].previousDragVector = previous]
  /\ interactor' # interactor
  /\ emitted' = <<>>
  /\ lastCall' = [op |-> "drag", by |-> i]
  /\ UNCHANGED <<baseColor, handVisual, headlock>>
  /\ UNCHANGED <<hoveringInteractor, triggeringInteractor, allowMultipleInteractors,
                 manip, root, session>>

\* a script writes a field of the component
Configure(op, m) ==
  /\ m # manip
  /\ manip' = m
  /\ emitted' = <<>>
  /\ lastCall' = [op |-> op, by |-> "script"]
  /\ UNCHANGED <<baseColor, handVisual, headlock>>
  /\ UNCHANGED <<hoveringInteractor, triggeringInteractor, allowMultipleInteractors,
                 interactor, root, session>>

\* onDestroy that leaves the callback of onTriggerUpdate in place
onDestroy_KeepUpdate(m) == [m EXCEPT !.unsubscribeBag = {"onTriggerUpdate"}]

\* onDestroy: every callback of the bag is removed from its event and the
\* bag is emptied
onDestroy(m) == [m EXCEPT !.unsubscribeBag = {}]

\* the engine destroys the component
OnDestroy ==
  /\ lastCall.op # "onDestroy"
  /\ manip.unsubscribeBag # {}
  /\ manip' = onDestroy(manip)
  /\ emitted' = <<>>
  /\ lastCall' = [op |-> "onDestroy", by |-> "script"]
  /\ UNCHANGED <<baseColor, handVisual, headlock>>
  /\ UNCHANGED <<hoveringInteractor, triggeringInteractor, allowMultipleInteractors,
                 interactor, root, session>>

\* between two grabs the interactor changes its targeting mode: Direct near
\* the object, Indirect away from it
Aim(i, mode) ==
  /\ ~Triggers(i)
  /\ interactor[i].activeTargetingMode # mode
  /\ interactor' = [interactor EXCEPT ![i].activeTargetingMode = mode]
  /\ emitted' = <<>>
  /\ lastCall' = [op |-> "aim", by |-> i]
  /\ UNCHANGED <<baseColor, handVisual, headlock>>
  /\ UNCHANGED <<hoveringInteractor, triggeringInteractor, allowMultipleInteractors,
                 manip, root, session>>

\* a script calls one of the reset functions
Resets == {"resetPosition", "resetRotation", "resetScale", "resetTransform"}

Reset(op, local) ==
  LET c == CASE op = "resetPosition" -> resetPosition(Cur, local)
             [] op = "resetRotation" -> resetRotation(Cur, local)
             [] op = "resetScale" -> resetScale(Cur, local)
             [] op = "resetTransform" -> resetTransform(Cur, local)
  IN  /\ root' = c.root
      /\ emitted' = <<>>
      /\ lastCall' = [op |-> op, by |-> "script", local |-> local]
      /\ UNCHANGED <<baseColor, handVisual, headlock>>
      /\ UNCHANGED <<hoveringInteractor, triggeringInteractor, allowMultipleInteractors,
                     interactor, manip, session>>

\* another script writes the local scale of the scene object
Rescale(scale) ==
  /\ root.scale # scale
  /\ root' = [root EXCEPT !.scale = scale]
  /\ emitted' = <<>>
  /\ lastCall' = [op |-> "setLocalScale", by |-> "script"]
  /\ UNCHANGED <<baseColor, handVisual, headlock>>
  /\ UNCHANGED <<hoveringInteractor, triggeringInteractor, allowMultipleInteractors,
                 interactor, manip, session>>

\* clampUniformScale applied to a scale, with the limits of the component;
\* the result is kept as the local scale
ClampUniformScale(scale) ==
  /\ root' = [root EXCEPT !.scale =
                 clampUniformScale(scale,
                   UniformScale(manip.originalLocalTransform.scale, manip.minimumScaleFactor),
                   UniformScale(manip.originalLocalTransform.scale, manip.maximumScaleFactor))]
  /\ emitted' = <<>>
  /\ lastCall' = [op |-> "clampUniformScale", by |-> "script", scale |-> scale]
  /\ UNCHANGED <<baseColor, handVisual, headlock>>
  /\ UNCHANGED <<hoveringInteractor, triggeringInteractor, allowMultipleInteractors,
                 interactor, manip, session>>

\* an event of the TrackedHand or of the engine reaches the HandVisual of
\* hand i and leaves it with the fields h
HandEvent(i, op, h) ==
  /\ handVisual' = [handVisual EXCEPT ![i] = h]
  /\ emitted' = <<>>
  /\ lastCall' = [op |-> op, by |-> i]
  /\ UNCHANGED <<baseColor, headlock>>
  /\ UNCHANGED <<hoveringInteractor, triggeringInteractor, allowMultipleInteractors,
                 interactor, manip, root, session>>

OnEnabledChanged(i, enabled) ==
  HandEvent(i, "onEnabledChanged", onEnabledChanged(handVisual[i], enabled))
OnHandFound(i) == HandEvent(i, "onHandFound", onHandFound(handVisual[i]))
OnHandLost(i) == HandEvent(i, "onHandLost", onHandLost(handVisual[i]))
OnPhoneInHandBegin(i) ==
  HandEvent(i, "onPhoneInHandBegin", onPhoneInHandBegin(handVisual[i]))
OnPhoneInHandEnd(i) ==
  HandEvent(i, "onPhoneInHandEnd", onPhoneInHandEnd(handVisual[i]))

\* the engine enables the script component: OnEnableEvent
OnEnableEvent(i) ==
  /\ ~handVisual[i].scriptEnabled
  /\ HandEvent(i, "OnEnableEvent",
               [defineOnEnableBehavior(handVisual[i]) EXCEPT !.scriptEnabled = TRUE])

\* the engine disables the script component: OnDisableEvent
OnDisableEvent(i) ==
  /\ handVisual[i].scriptEnabled
  /\ HandEvent(i, "OnDisableEvent",
               [defineOnDisableBehavior(handVisual[i]) EXCEPT !.scriptEnabled = FALSE])

\* a script assigns v to the property name of the Headlock
Set(name, v) ==
  /\ headlock' = set(headlock, name, v)
  /\ emitted' = <<>>
  /\ lastCall' = [op |-> "set", by |-> "script", name |-> name, value |-> v]
  /\ UNCHANGED <<baseColor, handVisual>>
  /\ UNCHANGED <<hoveringInteractor, triggeringInteractor, allowMultipleInteractors,
                 interactor, manip, root, session>>

SetEnabled(b) == Configure("enabled", [manip EXCEPT !.enabled = b])
setCanTranslate(b) == Configure("setCanTranslate", [manip EXCEPT !.enableTranslation = b])
setCanRotate(b) == Configure("setCanRotate", [manip EXCEPT !.enableRotation = b])
setCanScale(b) == Configure("setCanScale", [manip EXCEPT !.enableScale = b])

InitWith(t, cfg, points) ==
  /\ hoveringInteractor = None
  /\ triggeringInteractor = None
  /\ allowMultipleInteractors = TRUE
  /\ interactor = [i \in Interactors |-> IdleInteractor(points[i])]
  /\ manip = Awake(t, cfg)
  /\ root = t
  /\ emitted = <<>>
  /\ lastCall = [op |-> "onAwake", by |-> "script"]
  /\ session = FALSE
  /\ HelpersAtAwake

DefaultFrame ==
  [any |-> QuatIdentity, alpha |-> One, deltaTime |-> <<1, 15>>,
   cameraRotation |-> QuatIdentity]

HomePoints == [i \in Interactors |-> HomePoint(i)]

RootAtAwake == [position |-> V(0, 0, 10), rotation |-> QuatIdentity, scale |-> VecOne]

-----------------------------------------------------------------------------
(* Spec: the event routing.  The three interactors hover and trigger the   *)
(* Interactable and a script enables and disables the component.           *)

Init == InitWith(RootAtAwake, [DefaultInputs EXCEPT !.useFilter = FALSE], HomePoints)

Next ==
  \/ \E i \in Interactors : HoverEnter(i)
  \/ \E i \in Interactors : HoverUpdate(i)
  \/ \E i \in Interactors : HoverExit(i)
  \/ \E i \in Interactors : TriggerStart(i, DefaultFrame)
  \/ \E i \in Interactors : TriggerUpdate(i, DefaultFrame)
  \/ \E i \in Interactors : TriggerEnd(i, DefaultFrame)
  \/ \E i \in Interactors : TriggerCanceled(i, DefaultFrame)
  \/ \E b \in BOOLEAN : SetEnabled(b)

Spec == Init /\ [][Next]_vars

-----------------------------------------------------------------------------
(* SpecCaps: the two hands trigger the Interactable while a script toggles *)
(* the component and its three capabilities.                               *)

Hands == {"left", "right"}

NextCaps ==
  \/ \E i \in Hands : HoverEnter(i)
  \/ \E i \in Hands : HoverExit(i)
  \/ \E i \in Hands : TriggerStart(i, DefaultFrame)
  \/ \E i \in Hands : TriggerEnd(i, DefaultFrame)
  \/ \E i \in Hands : TriggerCanceled(i, DefaultFrame)
  \/ \E b \in BOOLEAN : SetEnabled(b)
  \/ \E b \in BOOLEAN : setCanTranslate(b)
  \/ \E b \in BOOLEAN : setCanRotate(b)
  \/ \E b \in BOOLEAN : setCanScale(b)

SpecCaps == Init /\ [][NextCaps]_vars

-----------------------------------------------------------------------------
(* SpecTriggers: the dispatcher alone; no script touches the component.    *)

NextTriggers ==
  \/ \E i \in Interactors : HoverEnter(i)
  \/ \E i \in Interactors : HoverExit(i)
  \/ \E i \in Interactors : TriggerStart(i, DefaultFrame)
  \/ \E i \in Interactors : TriggerUpdate(i, DefaultFrame)
  \/ \E i \in Interactors : TriggerEnd(i, DefaultFrame)
  \/ \E i \in Interactors : TriggerCanceled(i, DefaultFrame)

SpecTriggers == Init /\ [][NextTriggers]_vars

-----------------------------------------------------------------------------
(* SpecMove: two-handed manipulation without filtering.  The left hand     *)
(* stays at the origin and the right hand moves along the x axis, so the   *)
(* distance between the hands takes the values 10, 20, 40, ...  Tracking  *)
(* is never lost, so no trigger is canceled.                               *)

Reach == 1
RightPoints == {V(10 * (2 ^ k), 0, 0) : k \in 0..Reach}

\* the user grabs the object only while it is near the place it had at onAwake
MaxDrift == 5
InReach ==
  \A k \in 1..3 : Le(AbsR(Sub(root.position[k], RootAtAwake.position[k])), R(MaxDrift))

InitMove ==
  InitWith(RootAtAwake,
           [DefaultInputs EXCEPT !.useFilter = FALSE, !.maximumScaleFactor = R(2)],
           HomePoints)

NextMove ==
  \/ \E i \in Hands : HoverEnter(i)
  \/ \E i \in Hands : HoverExit(i)
  \/ \E i \in Hands : InReach /\ TriggerStart(i, DefaultFrame)
  \/ \E i \in Hands : TriggerUpdate(i, DefaultFrame)
  \/ \E i \in Hands : TriggerEnd(i, DefaultFrame)
  \/ \E p \in RightPoints : Track("right", p, QuatIdentity, TRUE)

SpecMove == InitMove /\ [][NextMove]_vars

-----------------------------------------------------------------------------
(* SpecScale: two-handed scaling.  Translation and rotation are disabled,   *)
(* the right hand also reaches the left hand (distance 0), and the object   *)
(* starts with a uniform or a non-uniform scale.                            *)

ScalePoints == {VecZero} \cup RightPoints

OriginalScales == {VecOne, V(1, 2, 1)}

InitScale ==
  \E scale \in OriginalScales :
    InitWith([RootAtAwake EXCEPT !.scale = scale],
             [DefaultInputs EXCEPT !.useFilter = FALSE, !.maximumScaleFactor = R(2),
                                   !.enableTranslation = FALSE, !.enableRotation = FALSE],
             HomePoints)

NextScale ==
  \/ \E i \in Hands : HoverEnter(i)
  \/ \E i \in Hands : HoverExit(i)
  \/ \E i \in Hands : TriggerStart(i, DefaultFrame)
  \/ \E i \in Hands : TriggerUpdate(i, DefaultFrame)
  \/ \E i \in Hands : TriggerEnd(i, DefaultFrame)
  \/ \E i \in Hands : TriggerCanceled(i, DefaultFrame)
  \/ \E p \in ScalePoints : Track("right", p, QuatIdentity, TRUE)

SpecScale == InitScale /\ [][NextScale]_vars

-----------------------------------------------------------------------------
(* SpecGrab: the left hand alone grabs, carries and turns an object that   *)
(* the scene has placed upright or tilted, with and without filtering and  *)
(* rotation; its tracking can be lost.                                     *)

GrabPoints == {V(0, 0, 0), V(5, 0, 0)}
GrabOrientations == {QuatIdentity, RotY90}
PlacedRotations == {QuatIdentity, RotX90}

InitGrab ==
  \E rotate \in BOOLEAN, filter \in BOOLEAN, placed \in PlacedRotations :
    InitWith([RootAtAwake EXCEPT !.rotation = placed],
             [DefaultInputs EXCEPT !.useFilter = filter, !.enableRotation = rotate],
             HomePoints)

NextGrab ==
  \/ HoverEnter("left")
  \/ HoverExit("left")
  \/ InReach /\ TriggerStart("left", DefaultFrame)
  \/ TriggerUpdate("left", DefaultFrame)
  \/ TriggerEnd("left", DefaultFrame)
  \/ TriggerCanceled("left", DefaultFrame)
  \/ \E p \in GrabPoints, q \in GrabOrientations, valid \in BOOLEAN :
       Track("left", p, q, valid)

SpecGrab == InitGrab /\ [][NextGrab]_vars

-----------------------------------------------------------------------------
(* SpecRaw: the manipulation of SpecMove with useFilter off, in frames     *)
(* whose filter factor is 1 (a filter would pass its sample through) or    *)
(* 1/2 (a filter would lag behind).  Translation along x is locked and    *)
(* free along y and z, and the left hand also turns.                       *)

Alphas == {One, <<1, 2>>}
Frames == {[DefaultFrame EXCEPT !.alpha = a] : a \in Alphas}

InitRaw ==
  InitWith(RootAtAwake,
           [DefaultInputs EXCEPT !.useFilter = FALSE, !.maximumScaleFactor = R(2),
                                 !.enableXTranslation = FALSE],
           HomePoints)

NextRaw ==
  \/ \E i \in Hands : HoverEnter(i)
  \/ \E i \in Hands : HoverExit(i)
  \/ \E i \in Hands : InReach /\ TriggerStart(i, DefaultFrame)
  \/ \E i \in Hands, frame \in Frames : TriggerUpdate(i, frame)
  \/ \E i \in Hands : TriggerEnd(i, DefaultFrame)
  \/ \E p \in RightPoints : Track("right", p, QuatIdentity, TRUE)
  \/ \E q \in GrabOrientations : Track("left", HomePoint("left"), q, TRUE)

SpecRaw == InitRaw /\ [][NextRaw]_vars

-----------------------------------------------------------------------------
(* SpecLoss: the manipulation of SpecMove while the tracking of the right  *)
(* hand comes and goes: without tracking the hand reports no orientation.  *)

TrackedOrientations == {QuatIdentity, Null}

NextLoss ==
  \/ \E i \in Hands : HoverEnter(i)
  \/ \E i \in Hands : HoverExit(i)
  \/ \E i \in Hands : InReach /\ TriggerStart(i, DefaultFrame)
  \/ \E i \in Hands : TriggerUpdate(i, DefaultFrame)
  \/ \E i \in Hands : TriggerEnd(i, DefaultFrame)
  \/ \E p \in RightPoints, q \in TrackedOrientations : Track("right", p, q, TRUE)

SpecLoss == InitMove /\ [][NextLoss]_vars

-----------------------------------------------------------------------------
(* SpecAwake: the engine constructs the component on a scene object with   *)
(* or without an Interactable and calls onAwake once; the dispatcher       *)
(* reaches the handlers of an Interactable that exists.                    *)

\* the error onAwake throws, as the host sees it
Thrown(message) == [Ev("Error", "script") EXCEPT !.current = message]

SceneObjects == {"this", NoInteractable}

InitAwake ==
  /\ hoveringInteractor = None
  /\ triggeringInteractor = None
  /\ allowMultipleInteractors = TRUE
  /\ interactor = [i \in Interactors |-> IdleInteractor(HomePoint(i))]
  /\ manip = Constructed([DefaultInputs EXCEPT !.useFilter = FALSE])
  /\ root = RootAtAwake
  /\ emitted = <<>>
  /\ lastCall = [op |-> "constructor", by |-> "script"]
  /\ session = FALSE
  /\ HelpersAtAwake

OnAwake(component) ==
  /\ lastCall.op = "constructor"
  /\ LET r == onAwake(manip, component, root) IN
       /\ manip' = r.m
       /\ emitted' = IF r.thrown
                     THEN <<Thrown("InteractableManipulation requires an interactable to function.")>>
                     ELSE <<>>
  /\ lastCall' = [op |-> "onAwake", by |-> "script"]
  /\ UNCHANGED <<baseColor, handVisual, headlock>>
  /\ UNCHANGED <<hoveringInteractor, triggeringInteractor, allowMultipleInteractors,
                 interactor, root, session>>

NextAwake ==
  \/ \E component \in SceneObjects : OnAwake(component)
  \/ manip.interactable = "this" /\ NextTriggers

SpecAwake == InitAwake /\ [][NextAwake]_vars

-----------------------------------------------------------------------------
(* SpecPolicy: the event routing of SpecTriggers for an Interactable whose *)
(* allowMultipleInteractors input is off.                                  *)

InitPolicy ==
  /\ hoveringInteractor = None
  /\ triggeringInteractor = None
  /\ allowMultipleInteractors = FALSE
  /\ interactor = [i \in Interactors |-> IdleInteractor(HomePoint(i))]
  /\ manip = Awake(RootAtAwake, [DefaultInputs EXCEPT !.useFilter = FALSE])
  /\ root = RootAtAwake
  /\ emitted = <<>>
  /\ lastCall = [op |-> "onAwake", by |-> "script"]
  /\ session = FALSE
  /\ HelpersAtAwake

SpecPolicy == InitPolicy /\ [][NextTriggers]_vars

-----------------------------------------------------------------------------
(* SpecStray: the event routing of SpecTriggers with hoverUpdate calls that *)
(* arrive at any time, also while nothing hovers.                          *)

NextStray ==
  \/ NextTriggers
  \/ \E i \in Interactors : StrayHoverUpdate(i)

SpecStray == Init /\ [][NextStray]_vars

-----------------------------------------------------------------------------
(* SpecDrag: the two hands hover and trigger the Interactable while their  *)
(* drag vectors come and go.                                               *)

DragVectors == {Null, V(1, 0, 0)}

NextDrag ==
  \/ \E i \in Hands : HoverEnter(i)
  \/ \E i \in Hands : HoverExit(i)
  \/ \E i \in Hands : TriggerStart(i, DefaultFrame)
  \/ \E i \in Hands : TriggerUpdate(i, DefaultFrame)
  \/ \E i \in Hands : TriggerEnd(i, DefaultFrame)
  \/ \E i \in Hands : TriggerCanceled(i, DefaultFrame)
  \/ \E i \in Hands, current \in DragVectors, previous \in DragVectors :
       Drag(i, current, previous)

SpecDrag == Init /\ [][NextDrag]_vars

-----------------------------------------------------------------------------
(* SpecLock: translation with one axis locked (x or y), with and without   *)
(* filtering; rotation and scale are off.  The right hand moves along x    *)
(* and y.  A filter that lags (factor 1/2) halves the way to its sample,   *)
(* so such frames come only while the position is on a coarse grid.        *)

LockPoints == {HomePoint("right"), V(0, 10, 0)}

LockedAxes == {"X", "Y"}

MaxDenominator == 1
OnGrid == \A k \in 1..3 : root.position[k][2] <= MaxDenominator

InitLock ==
  \E axis \in LockedAxes, filter \in BOOLEAN :
    InitWith(RootAtAwake,
             [DefaultInputs EXCEPT !.useFilter = filter,
                                   !.enableRotation = FALSE, !.enableScale = FALSE,
                                   !.enableXTranslation = (axis # "X"),
                                   !.enableYTranslation = (axis # "Y")],
             HomePoints)

NextLock ==
  \/ \E i \in Hands : HoverEnter(i)
  \/ \E i \in Hands : HoverExit(i)
  \/ \E i \in Hands : InReach /\ TriggerStart(i, DefaultFrame)
  \/ \E i \in Hands, frame \in Frames :
       (frame.alpha = One \/ OnGrid) /\ TriggerUpdate(i, frame)
  \/ \E i \in Hands : TriggerEnd(i, DefaultFrame)
  \/ \E p \in LockPoints : Track("right", p, QuatIdentity, TRUE)

SpecLock == InitLock /\ [][NextLock]_vars

-----------------------------------------------------------------------------
(* SpecReset: moves with a script that calls the reset functions, in       *)
(* local and in world space, between and during the manipulations.         *)

ResetPoints == {HomePoint("right"), V(20, 0, 0)}

NextReset ==
  \/ \E i \in Hands : HoverEnter(i)
  \/ \E i \in Hands : InReach /\ TriggerStart(i, DefaultFrame)
  \/ \E i \in Hands : TriggerUpdate(i, DefaultFrame)
  \/ \E i \in Hands : TriggerEnd(i, DefaultFrame)
  \/ \E p \in ResetPoints : Track("right", p, QuatIdentity, TRUE)
  \/ \E op \in Resets, local \in BOOLEAN : Reset(op, local)

SpecReset == InitMove /\ [][NextReset]_vars

-----------------------------------------------------------------------------
(* SpecStart: filtered manipulation with a far and a near hand.  The left  *)
(* hand targets the object from a distance (Indirect) and moves towards    *)
(* and away from the user, which stretches the object along the ray; the   *)
(* right hand is at the object (Direct).  Both are on the z axis.          *)

StretchPoints == {V(0, 0, 0), V(0, 0, -20)}
NearPoint == V(0, 0, 20)

InitStart ==
  /\ hoveringInteractor = None
  /\ triggeringInteractor = None
  /\ allowMultipleInteractors = TRUE
  /\ interactor = [i \in Interactors |->
                     IF i = "left"
                     THEN [IdleInteractor(HomePoint(i)) EXCEPT !.activeTargetingMode = "Indirect"]
                     ELSE IdleInteractor(NearPoint)]
  /\ manip = Awake(RootAtAwake, [DefaultInputs EXCEPT !.maximumScaleFactor = R(2)])
  /\ root = RootAtAwake
  /\ emitted = <<>>
  /\ lastCall = [op |-> "onAwake", by |-> "script"]
  /\ session = FALSE
  /\ HelpersAtAwake

NextStart ==
  \/ \E i \in Hands : HoverEnter(i)
  \/ \E i \in Hands : InReach /\ TriggerStart(i, DefaultFrame)
  \/ \E i \in Hands : TriggerUpdate(i, DefaultFrame)
  \/ \E i \in Hands : TriggerEnd(i, DefaultFrame)
  \/ \E p \in StretchPoints : Track("left", p, QuatIdentity, TRUE)

SpecStart == InitStart /\ [][NextStart]_vars

-----------------------------------------------------------------------------
(* SpecClamp: the scaling of SpecScale on an object that another script    *)
(* stretches along x between the manipulations, so that its scale is not   *)
(* proportional to the original scale.                                     *)

WidenedScales == {V(2, 1, 1)}

NextClamp ==
  \/ \E i \in Hands : HoverEnter(i)
  \/ \E i \in Hands : TriggerStart(i, DefaultFrame)
  \/ \E i \in Hands : TriggerUpdate(i, DefaultFrame)
  \/ \E i \in Hands : TriggerEnd(i, DefaultFrame)
  \/ \E p \in ScalePoints : Track("right", p, QuatIdentity, TRUE)
  \/ \E scale \in WidenedScales : ~session /\ Rescale(scale)

SpecClamp == InitScale /\ [][NextClamp]_vars

-----------------------------------------------------------------------------
(* SpecUniform: clampUniformScale as a function.  The limits come from an  *)
(* original scale that is uniform, non-uniform or mirrored along x, and    *)
(* the scales have components under, inside and over the limits, also      *)
(* negative ones.                                                          *)

ScaleComponents == {R(-1), <<1, 8>>, R(1), R(8)}
InputScales == {<<x, y, z>> : x \in ScaleComponents, y \in ScaleComponents, z \in ScaleComponents}
LimitScales == {VecOne, V(1, 2, 1), V(-1, 1, 1)}

InitUniform ==
  \E original \in LimitScales :
    InitWith([RootAtAwake EXCEPT !.scale = original],
             [DefaultInputs EXCEPT !.useFilter = FALSE, !.maximumScaleFactor = R(2)],
             HomePoints)

NextUniform == \E scale \in InputScales : ClampUniformScale(scale)

SpecUniform == InitUniform /\ [][NextUniform]_vars

-----------------------------------------------------------------------------
(* SpecAxis: two hands turn the object about all axes or about one world   *)
(* axis.  The right hand goes around the left hand, which stays at the     *)
(* origin, at distance 5, so that the vector between the hands changes its *)
(* sign along x and along z.  Translation and scale are off.               *)

RotationAxes == {"All", "X", "Y", "Z"}
AroundPoints == {V(3, 0, 4), V(3, 0, -4), V(-3, 0, 4), V(-3, 0, -4)}

InitAxis ==
  \E axis \in RotationAxes :
    InitWith(RootAtAwake,
             [DefaultInputs EXCEPT !.useFilter = FALSE, !.rotationAxis = axis,
                                   !.enableTranslation = FALSE, !.enableScale = FALSE],
             [HomePoints EXCEPT !["right"] = V(3, 0, 4)])

NextAxis ==
  \/ \E i \in Hands : HoverEnter(i)
  \/ \E i \in Hands : TriggerStart(i, DefaultFrame)
  \/ \E i \in Hands : TriggerUpdate(i, DefaultFrame)
  \/ \E i \in Hands : TriggerEnd(i, DefaultFrame)
  \/ \E p \in AroundPoints : Track("right", p, QuatIdentity, TRUE)

SpecAxis == InitAxis /\ [][NextAxis]_vars

-----------------------------------------------------------------------------
(* SpecDual: one and two hands move and scale an object while a script     *)
(* turns scaling on and off.  The right hand also reaches the left hand,   *)
(* so a two-handed session can start at distance 0.  Rotation is off.      *)

DualPoints == {VecZero, V(10, 0, 0), V(20, 0, 0)}

InitDual ==
  InitWith(RootAtAwake,
           [DefaultInputs EXCEPT !.useFilter = FALSE, !.maximumScaleFactor = R(2),
                                 !.enableRotation = FALSE],
           HomePoints)

NextDual ==
  \/ \E i \in Hands : HoverEnter(i)
  \/ \E i \in Hands : InReach /\ TriggerStart(i, DefaultFrame)
  \/ \E i \in Hands : TriggerUpdate(i, DefaultFrame)
  \/ \E i \in Hands : TriggerEnd(i, DefaultFrame)
  \/ \E p \in DualPoints : Track("right", p, QuatIdentity, TRUE)
  \/ \E b \in BOOLEAN : setCanScale(b)

SpecDual == InitDual /\ [][NextDual]_vars

-----------------------------------------------------------------------------
(* SpecDestroy: the manipulation of SpecMove with a component that the     *)
(* engine destroys at some moment, between or during the manipulations;    *)
(* the Interactable lives on.                                              *)

NextDestroy ==
  \/ NextMove
  \/ OnDestroy

SpecDestroy == InitMove /\ [][NextDestroy]_vars

-----------------------------------------------------------------------------
(* SpecFrames: the frames of one- and two-handed manipulations while a     *)
(* script toggles translation and rotation and the tracking of the right   *)
(* hand comes and goes.  The hands stay where they are.                    *)

NextFrames ==
  \/ \E i \in Hands : HoverEnter(i)
  \/ \E i \in Hands : InReach /\ TriggerStart(i, DefaultFrame)
  \/ \E i \in Hands : TriggerUpdate(i, DefaultFrame)
  \/ \E i \in Hands : TriggerEnd(i, DefaultFrame)
  \/ \E q \in TrackedOrientations : Track("right", HomePoint("right"), q, TRUE)
  \/ \E b \in BOOLEAN : setCanTranslate(b)
  \/ \E b \in BOOLEAN : setCanRotate(b)

SpecFrames == InitMove /\ [][NextFrames]_vars

-----------------------------------------------------------------------------
(* SpecAim: the left hand alone grabs and turns the object, in the Direct  *)
(* targeting mode in one session and in the Indirect mode in another; its  *)
(* tracking can be lost.  The rotation is about all axes or about y.       *)

TargetingModes == {"Direct", "Indirect"}
AimAxes == {"All", "Y"}

InitAim ==
  \E axis \in AimAxes :
    InitWith(RootAtAwake,
             [DefaultInputs EXCEPT !.useFilter = FALSE, !.rotationAxis = axis],
             HomePoints)

NextAim ==
  \/ HoverEnter("left")
  \/ InReach /\ TriggerStart("left", DefaultFrame)
  \/ TriggerUpdate("left", DefaultFrame)
  \/ TriggerEnd("left", DefaultFrame)
  \/ \E q \in GrabOrientations, valid \in BOOLEAN :
       Track("left", HomePoint("left"), q, valid)
  \/ \E mode \in TargetingModes : Aim("left", mode)

SpecAim == InitAim /\ [][NextAim]_vars

-----------------------------------------------------------------------------
(* SpecHand: the two HandVisuals under the events of their TrackedHands    *)
(* and of the engine, in any order.                                        *)

NextHand ==
  \/ \E i \in HandTypes, enabled \in BOOLEAN : OnEnabledChanged(i, enabled)
  \/ \E i \in HandTypes : OnHandFound(i)
  \/ \E i \in HandTypes : OnHandLost(i)
  \/ \E i \in HandTypes : OnPhoneInHandBegin(i)
  \/ \E i \in HandTypes : OnPhoneInHandEnd(i)
  \/ \E i \in HandTypes : OnEnableEvent(i)
  \/ \E i \in HandTypes : OnDisableEvent(i)

SpecHand == Init /\ [][NextHand]_vars

\* SpecTracked: the same without the engine's enable and disable events
NextTracked ==
  \/ \E i \in HandTypes, enabled \in BOOLEAN : OnEnabledChanged(i, enabled)
  \/ \E i \in HandTypes : OnHandFound(i)
  \/ \E i \in HandTypes : OnHandLost(i)
  \/ \E i \in HandTypes : OnPhoneInHandBegin(i)
  \/ \E i \in HandTypes : OnPhoneInHandEnd(i)

SpecTracked == Init /\ [][NextTracked]_vars

-----------------------------------------------------------------------------
(* SpecHeadlock: a script assigns the properties of a Headlock, in any     *)
(* order.  Each property has two values: a distance of 1 or 50 cm, an      *)
(* easing of 1/2 or 1, a buffer or an offset of 0 or 10.                   *)

Switches == {"xzEnabled", "yEnabled", "lockedPitch", "lockedYaw"}
Easings == {"xzEasing", "yEasing", "pitchEasing", "yawEasing"}

Values(name) ==
  IF name \in Switches THEN BOOLEAN
  ELSE IF name = "distance" THEN {R(1), R(50)}
  ELSE IF name \in Easings THEN {<<1, 2>>, R(1)}
  ELSE {R(0), R(10)}

NextHeadlock == \E name \in Properties : \E v \in Values(name) : Set(name, v)

SpecHeadlock == Init /\ [][NextHeadlock]_vars

-----------------------------------------------------------------------------
(* Properties of the Interactable *)

Count(name, out) == Cardinality({k \in DOMAIN out : out[k].ev = name})

TypeSet(mask) == {i \in Interactors : BitAnd(mask, InputType(i)) # 0}

\* C1: over any sequence of hoverEnter/hoverExit calls from the interactors of
\* the N input types, a call invokes the aggregate onHoverEnter exactly once
\* when it takes hoveringInteractor from None to non-None and not at all
\* otherwise, and the aggregate onHoverExit exactly once when it takes
\* hoveringInteractor from non-None to None and not at all otherwise.
C1_AggregateHoverOncePerTransition ==
  [][ /\ Count("onHoverEnter", emitted') =
           (IF hoveringInteractor = None /\ hoveringInteractor' # None THEN 1 ELSE 0)
      /\ Count("onHoverExit", emitted') =
           (IF hoveringInteractor # None /\ hoveringInteractor' = None THEN 1 ELSE 0) ]_vars

\* the third hoverer has entered without an aggregate event
C1_Witness ==
  /\ lastCall.op = "hoverEnter"
  /\ TypeSet(hoveringInteractor) = Interactors
  /\ Count("onHoverEnter", emitted) = 0
  /\ Count("onInteractorHoverEnter", emitted) = 1

\* C2: after any call of triggerCanceled, whatever bits were set before it,
\* triggeringInteractor is None.
C2_CanceledClearsTrigger ==
  lastCall.op = "triggerCanceled" => triggeringInteractor = None

\* one interactor canceled while another one is still triggering
C2_Witness ==
  /\ lastCall.op = "triggerCanceled"
  /\ \E j \in Interactors : j # lastCall.by /\ Triggers(j)
  /\ triggeringInteractor = None

HoverBitsExact == TypeSet(hoveringInteractor) = {i \in Interactors : Hovers(i)}
TriggerBitsExact == TypeSet(triggeringInteractor) = {i \in Interactors : Triggers(i)}

\* C3 as stated: in every reachable state the bit of an input type is set in
\* hoveringInteractor (triggeringInteractor) iff an interactor of that type
\* is hovering (triggering) the Interactable.
C3_Original == HoverBitsExact /\ TriggerBitsExact

\* C3 as amended: the hover bits are exact; a trigger bit is set only if an
\* interactor of that type is triggering, and every call other than
\* triggerCanceled keeps the trigger bits exact.
C3_BitsTrackInteractors ==
  /\ [](HoverBitsExact /\ TypeSet(triggeringInteractor) \subseteq {i \in Interactors : Triggers(i)})
  /\ [][TriggerBitsExact /\ lastCall'.op # "triggerCanceled" => TriggerBitsExact']_vars

\* a cancel has cleared the bit of an interactor that still triggers
C3_Witness ==
  /\ lastCall.op = "triggerCanceled"
  /\ HoverBitsExact
  /\ ~TriggerBitsExact

-----------------------------------------------------------------------------
(* Properties of the manipulation sessions *)

ManipulationMarks(out) ==
  SelectSeq(Names(out), LAMBDA n : n \in {"onManipulationStart", "onManipulationEnd"})

\* do the Start/End events of out alternate, continuing a trace in which a
\* Start is unmatched iff open
Alternates(open, out) ==
  LET marks == ManipulationMarks(out)
      F[k \in 0..Len(marks)] ==
        IF k = 0 THEN open
        ELSE (marks[k] = "onManipulationStart")
  IN  \A k \in 1..Len(marks) : (marks[k] = "onManipulationStart") = ~F[k - 1]

\* C5: onManipulationStart and onManipulationEnd strictly alternate, beginning
\* with a Start, over every sequence of trigger start/end/cancel events.
C5_StartEndAlternate == [][Alternates(session, emitted')]_vars

\* C6: once a manipulation has started and every interactor has stopped
\* triggering, onManipulationEnd has been emitted and the interactors list is
\* empty, also when the component or its capabilities were toggled meanwhile.
C6_NoMissedEnd ==
  (\A i \in Interactors : ~Triggers(i)) => (~session /\ manip.interactors = <<>>)

IsInjective(f) == \A a, b \in DOMAIN f : f[a] = f[b] => a = b

-----------------------------------------------------------------------------
(* Properties of the transitions between one and two interactors *)

ManipulationEvents(out) == SelectSeq(out, LAMBDA e : e.by = "manipulation")

\* the End or Start events (phase) of a configuration of count interactors
\* listed in list, with the start values start and the transform t
EventSet(phase, count, list, start, t) ==
  << MEv("onTranslation" \o phase, list, start.position, t.position),
     MEv("onRotation" \o phase, list, start.rotation, t.rotation) >>
  \o (IF count = 2 THEN <<MEv("onScale" \o phase, list, start.scale, t.scale)>> ELSE <<>>)
  \o << MEv("onManipulation" \o phase, list, start, Snapshot(t)) >>

ToggleCalls == {"triggerStart", "triggerEnd", "triggerCanceled"}

\* C4: when onTriggerToggle sees the number of triggering interactors change
\* from 1 to 2 or from 2 to 1, it emits the End events of the outgoing
\* configuration (with the outgoing interactors and start values), then
\* recomputes the start values from the transform, then emits the Start
\* events of the incoming configuration; it emits nothing else, so there is no
\* second Start set, and no event carries an empty interactors list.
C4_EndThenStartOnCountChange ==
  [][ ( /\ lastCall'.op \in ToggleCalls
        /\ manip.enabled
        /\ {Len(manip.interactors), Len(manip'.interactors)} = {1, 2} )
      => /\ manip'.startTransform = Snapshot(root)
         /\ root' = root
         /\ ManipulationEvents(emitted') =
              EventSet("End", Len(manip.interactors), manip.interactors,
                       manip.startTransform, root)
              \o EventSet("Start", Len(manip'.interactors), manip'.interactors,
                          Snapshot(root), root)
         /\ \A k \in DOMAIN emitted' :
              emitted'[k].by = "manipulation" => emitted'[k].interactors # <<>> ]_vars

\* one of two hands has let go of an object that the hands had moved and
\* scaled: the dual session has ended and a single session has started
C4_Witness ==
  /\ lastCall.op = "triggerEnd"
  /\ Len(manip.interactors) = 1
  /\ Names(ManipulationEvents(emitted)) =
       << "onTranslationEnd", "onRotationEnd", "onScaleEnd", "onManipulationEnd",
          "onTranslationStart", "onRotationStart", "onManipulationStart" >>
  /\ manip.startTransform.position # RootAtAwake.position
  /\ manip.startTransform.scale # RootAtAwake.scale

-----------------------------------------------------------------------------
(* Properties of the scale *)

\* is every axis of scale within the limits of the component m
WithinScaleLimits(scale, m) ==
  \A k \in 1..3 :
    /\ Le(Mul(m.minimumScaleFactor, m.originalLocalTransform.scale[k]), scale[k])
    /\ Le(scale[k], Mul(m.maximumScaleFactor, m.originalLocalTransform.scale[k]))

ScaleWritten == lastCall.op = "triggerUpdate" /\ Count("onScaleUpdate", emitted) = 1

\* C8: every local scale written by setScale during a manipulation lies, on
\* every axis, within [minimumScaleFactor, maximumScaleFactor] times the
\* original local scale of that axis, whatever the distances between the
\* interactors (zero included) and the scale at the start of the session.
C8_ScaleWithinLimits == ScaleWritten => WithinScaleLimits(root.scale, manip)

\* the scale the dual update computes before clamping
Unclamped(m, d) ==
  UniformScale(m.initialObjectScale,
               Add(One, Div(Sub(d, m.initialInteractorDistance), m.initialInteractorDistance)))

ExceedsMaximum(scale, m) ==
  \A k \in 1..3 : Gt(scale[k], Mul(m.maximumScaleFactor, m.originalLocalTransform.scale[k]))

HandsDistance == Distance(interactor["left"].startPoint, interactor["right"].startPoint)

C10_WitnessLimit ==
  /\ ScaleWritten
  /\ Count("onScaleLimitReached", emitted) = 1
  /\ root.scale = UniformScale(manip.originalLocalTransform.scale, manip.maximumScaleFactor)

-----------------------------------------------------------------------------
(* Properties of the grab *)

\* C9: no pop at grab.  For a single valid interactor in Direct targeting
\* mode, the first onTriggerUpdate after the start of the session, with the
\* start point and the orientation of the interactor as they were at the
\* start, leaves the manipulated transform at startTransform.position.
C9_NoPopAtGrab ==
  [][ ( /\ lastCall.op = "triggerStart"
        /\ lastCall'.op = "triggerUpdate"
        /\ Len(manip.interactors) = 1
        /\ isInteractorValid(interactor[manip.interactors[1]])
        /\ manip.cachedTargetingMode = "Direct" )
      => root'.position = manip.startTransform.position ]_vars

\* a turned hand away from the origin has grabbed the object, which had been
\* carried and turned before, and the first update has run with translation
\* and rotation enabled
C9_Witness ==
  /\ lastCall.op = "triggerUpdate"
  /\ Names(ManipulationEvents(emitted)) =
       <<"onTranslationUpdate", "onRotationUpdate", "onManipulationUpdate">>
  /\ manip.interactors = <<"left">>
  /\ isInteractorValid(interactor["left"])
  /\ interactor["left"].orientation # QuatIdentity
  /\ interactor["left"].startPoint # VecZero
  /\ manip.startTransform.position # RootAtAwake.position
  /\ manip.startTransform.rotation # QuatIdentity
  /\ manip.offsetPosition = VSub(manip.startTransform.position, interactor["left"].startPoint)
  /\ root.position = manip.startTransform.position

-----------------------------------------------------------------------------
(* Properties of the unfiltered manipulation *)

\* the three filters of the component
FilterStates(m) == <<m.translateFilter, m.rotationFilter, m.scaleFilter>>

\* the transform a triggerUpdate of interactor i writes in a frame whose
\* filters pass their samples through: the solved position (axis locks
\* applied), rotation and scale (clamped)
Solved(i) == triggerUpdate(Cur, i, interactor, DefaultFrame).root

\* C11: with useFilter off, whatever the filter factor of the frame, a
\* triggerUpdate writes exactly the solved position, rotation and scale to
\* the manipulated transform and gives no sample to any of the three filters.
C11_UnfilteredWritesSolved ==
  [][(lastCall'.op = "triggerUpdate" /\ ~manip.useFilter)
       => /\ root' = Solved(lastCall'.by)
          /\ FilterStates(manip') = FilterStates(manip)]_vars

\* updates have written a new position, rotation and scale with the x axis
\* locked, and no filter has seen a sample
C11_Witness ==
  /\ lastCall.op = "triggerUpdate"
  /\ ~manip.useFilter
  /\ ~manip.enableXTranslation
  /\ root.position # RootAtAwake.position
  /\ root.position[1] = RootAtAwake.position[1]
  /\ root.rotation # RootAtAwake.rotation
  /\ root.scale # RootAtAwake.scale
  /\ FilterStates(manip) = <<Null, Null, Null>>

-----------------------------------------------------------------------------
(* Properties of the frames with an invalid interactor *)

\* one of the interactors that drive the manipulation is invalid
DrivenByInvalid ==
  /\ Len(manip.interactors) \in {1, 2}
  /\ \E k \in DOMAIN manip.interactors : ~isInteractorValid(interactor[manip.interactors[k]])

\* C12: a triggerUpdate in a frame in which an interactor that drives the
\* manipulation (one or two interactors) is invalid leaves the position,
\* rotation and scale of the manipulated transform unchanged.
C12_InvalidFrameSkipped ==
  [][(lastCall'.op = "triggerUpdate" /\ DrivenByInvalid) => root' = root]_vars

-----------------------------------------------------------------------------
(* Properties of onAwake *)

\* C13: onAwake on a scene object without an Interactable throws an error
\* and leaves the component as the constructor left it: no callback is
\* subscribed to an event of an Interactable, no transform is cached and no
\* filter is created.
C13_AwakeFailsFirst ==
  [][(lastCall'.op = "onAwake" /\ manip'.interactable = NoInteractable)
       => /\ Count("Error", emitted') = 1
          /\ manip' = manip
          /\ manip'.unsubscribeBag = {}
          /\ manip'.originalWorldTransform = CachedTransform
          /\ manip'.originalLocalTransform = CachedTransform
          /\ FilterStates(manip') = <<Undefined, Undefined, Undefined>>]_vars

\* onAwake has thrown on an object whose transform differs from the
\* initializer of the cached transforms
C13_Witness ==
  /\ lastCall.op = "onAwake"
  /\ manip.interactable = NoInteractable
  /\ Count("Error", emitted) = 1
  /\ Snapshot(root) # CachedTransform

-----------------------------------------------------------------------------
(* Properties of the aggregate trigger events *)

\* C14: a call invokes the aggregate onTriggerStart exactly once if it takes
\* triggeringInteractor from None to a set bit and not at all otherwise, and
\* it invokes the aggregate onTriggerEnd only if it takes
\* triggeringInteractor from a set bit to None.
C14_TriggerMirrorsHover ==
  [][/\ Count("onTriggerStart", emitted') =
          (IF triggeringInteractor = None /\ triggeringInteractor' # None THEN 1 ELSE 0)
     /\ Count("onTriggerEnd", emitted') > 0
          => (triggeringInteractor # None /\ triggeringInteractor' = None)]_vars

-----------------------------------------------------------------------------
(* Properties of the multi-interactor policy *)

AtMostOneType(mask) == Cardinality(TypeSet(mask)) <= 1

\* the call is a hoverEnter or a triggerStart of an interactor whose type is
\* not the one that interacts already
AttemptByOtherType(op, mask) ==
  /\ lastCall'.op = op
  /\ mask # None
  /\ BitAnd(mask, InputType(lastCall'.by)) = None

\* C15: while allowMultipleInteractors is off, at most one type bit is set
\* in hoveringInteractor and in triggeringInteractor, and a hoverEnter or
\* triggerStart of another type than the one that interacts already changes
\* no state of the Interactable and invokes no event.
C15_OneTypeAtATime ==
  [][~allowMultipleInteractors
       => /\ AtMostOneType(hoveringInteractor')
          /\ AtMostOneType(triggeringInteractor')
          /\ (AttemptByOtherType("hoverEnter", hoveringInteractor)
                \/ AttemptByOtherType("triggerStart", triggeringInteractor))
               => /\ hoveringInteractor' = hoveringInteractor
                  /\ triggeringInteractor' = triggeringInteractor
                  /\ emitted' = <<>>]_vars

-----------------------------------------------------------------------------
(* Properties of the updates with an unsupported number of interactors *)

Unsupported == Len(manip.interactors) \notin {1, 2}

\* the component is enabled and has one of its three capabilities
Operative == manip.enabled /\ (canTranslate(manip) \/ canRotate(manip) \/ canScale(manip))

UpdateEvents(out) ==
  SelectSeq(out, LAMBDA e : e.ev \in {"onTranslationUpdate", "onRotationUpdate",
                                      "onScaleUpdate", "onManipulationUpdate"})

\* a triggerUpdate in a frame with an unsupported number of interactors logs
\* a warning, changes neither the transform nor the component and invokes no
\* Update event of the manipulation
SkippedWithWarning ==
  /\ Count("log.w", emitted') = 1
  /\ root' = root
  /\ manip' = manip
  /\ UpdateEvents(emitted') = <<>>

\* a triggerUpdate in a frame with one or two interactors is applied: the
\* Update events are invoked and no warning is logged
Applied ==
  /\ Count("log.w", emitted') = 0
  /\ Count("onManipulationUpdate", emitted') = 1

\* the claim as stated: every triggerUpdate with an unsupported number of
\* interactors logs the warning
C16_Original ==
  [][(lastCall'.op = "triggerUpdate" /\ Unsupported) => SkippedWithWarning]_vars

\* C16: while the component is enabled with a capability, a triggerUpdate
\* with 0 or more than two interactors logs a warning, leaves the transform
\* alone and invokes no Update event, and a triggerUpdate with one or two
\* interactors (also after the count has come back) is applied.
C16_UnsupportedCountSkipped ==
  [][(lastCall'.op = "triggerUpdate" /\ Operative)
       => /\ Unsupported => SkippedWithWarning
          /\ ~Unsupported => Applied]_vars

\* three interactors trigger an enabled component and an update has logged
\* the warning
C16_Witness ==
  /\ lastCall.op = "triggerUpdate"
  /\ Operative
  /\ Len(manip.interactors) = 3
  /\ Names(emitted) = <<"onTriggerUpdate", "log.w">>

\* two of the three interactors that hover trigger, and an update is applied
C16_WitnessRecovered ==
  /\ lastCall.op = "triggerUpdate"
  /\ Operative
  /\ Len(manip.interactors) = 2
  /\ TypeSet(hoveringInteractor) = Interactors
  /\ Count("onManipulationUpdate", emitted) = 1

-----------------------------------------------------------------------------
(* Properties of the single hover and trigger handlers *)

\* every event of out carries the interactor i of the call
AllBy(out, i) == \A k \in DOMAIN out : out[k].by = i

\* C17: hoverEnter sets the bit of the caller's type in hoveringInteractor
\* and invokes onHoverEnter followed by onInteractorHoverEnter if
\* hoveringInteractor was None before the call, and onInteractorHoverEnter
\* alone otherwise.
C17_HoverEnterEvents ==
  [][lastCall'.op = "hoverEnter"
       => /\ hoveringInteractor' = BitOr(hoveringInteractor, InputType(lastCall'.by))
          /\ BitAnd(hoveringInteractor', InputType(lastCall'.by)) # None
          /\ Names(emitted') = (IF hoveringInteractor = None
                                THEN <<"onHoverEnter", "onInteractorHoverEnter">>
                                ELSE <<"onInteractorHoverEnter">>)
          /\ AllBy(emitted', lastCall'.by)]_vars

\* the first hoverer has entered: both events, the aggregate one first
C17_Witness ==
  /\ lastCall.op = "hoverEnter"
  /\ hoveringInteractor = InputType(lastCall.by)
  /\ Names(emitted) = <<"onHoverEnter", "onInteractorHoverEnter">>

\* C18: hoverExit clears the bit of the caller's type and invokes
\* onInteractorHoverExit, followed by onHoverExit if and only if
\* hoveringInteractor is None once the bit is cleared; while another type
\* still hovers no onHoverExit is invoked.
C18_HoverExitEvents ==
  [][lastCall'.op = "hoverExit"
       => /\ hoveringInteractor' = BitAndNot(hoveringInteractor, InputType(lastCall'.by))
          /\ Names(emitted') = (IF hoveringInteractor' = None
                                THEN <<"onInteractorHoverExit", "onHoverExit">>
                                ELSE <<"onInteractorHoverExit">>)
          /\ AllBy(emitted', lastCall'.by)]_vars

\* the last hoverer has left: both events, the aggregate one last
C18_Witness ==
  /\ lastCall.op = "hoverExit"
  /\ hoveringInteractor = None
  /\ Names(emitted) = <<"onInteractorHoverExit", "onHoverExit">>

\* one hoverer has left while another type still hovers: no aggregate event
C18_WitnessStillHovered ==
  /\ lastCall.op = "hoverExit"
  /\ hoveringInteractor # None
  /\ Names(emitted) = <<"onInteractorHoverExit">>

\* C19: a hoverUpdate while hoveringInteractor is None invokes no event and
\* changes nothing; any other hoverUpdate invokes onHoverUpdate exactly once
\* and changes nothing; so no call invokes onHoverUpdate while nothing
\* hovers (from the last hoverExit to the next hoverEnter).
C19_HoverUpdateGuarded ==
  [][/\ lastCall'.op = "hoverUpdate"
          => /\ Names(emitted') = (IF hoveringInteractor = None THEN <<>>
                                   ELSE <<"onHoverUpdate">>)
             /\ UNCHANGED <<hoveringInteractor, triggeringInteractor, manip, root>>
     /\ Count("onHoverUpdate", emitted') > 0 => hoveringInteractor' # None]_vars

\* a hoverUpdate has arrived after the last hoverer left and was swallowed
C19_Witness ==
  /\ lastCall.op = "hoverUpdate"
  /\ hoveringInteractor = None
  /\ emitted = <<>>

\* C20: no call invokes onTriggerUpdate or a drag event while
\* triggeringInteractor is None (after a triggerCanceled or the last
\* triggerEnd and before the next triggerStart).
C20_TriggerUpdateGuarded ==
  [][lastCall'.op = "triggerUpdate" /\ triggeringInteractor = None
       => /\ Count("onTriggerUpdate", emitted') = 0
          /\ Count("onDragStart", emitted') = 0
          /\ Count("onDragUpdate", emitted') = 0]_vars

-----------------------------------------------------------------------------
(* Properties of the drag events *)

DragEvents(out) ==
  SelectSeq(out, LAMBDA e : e.ev \in {"onDragStart", "onDragUpdate", "onDragEnd"})

\* the events of the Interactable itself, without those of its subscribers
InteractableEvents(out) == SelectSeq(out, LAMBDA e : e.by \in Interactors)

\* C21: a triggerUpdate invokes onTriggerUpdate first; it invokes no drag
\* event if the currentDragVector of its interactor is null, onDragStart
\* alone, as its last event, if the currentDragVector is not null and the
\* previousDragVector is null, and onDragUpdate alone, as its last event, if
\* neither is null.
C21_DragStartOrUpdate ==
  [][lastCall'.op = "triggerUpdate"
       => LET s == interactor[lastCall'.by]
              expected == IF s.currentDragVector = Null THEN <<>>
                          ELSE IF s.previousDragVector = Null THEN <<"onDragStart">>
                          ELSE <<"onDragUpdate">>
          IN  /\ Names(InteractableEvents(emitted')) = <<"onTriggerUpdate">> \o expected
              /\ Names(DragEvents(emitted')) = expected
              /\ expected # <<>> => emitted'[Len(emitted')].ev = expected[1]
              /\ AllBy(InteractableEvents(emitted'), lastCall'.by)]_vars

\* the first frame of a drag: onDragStart follows the Update events
C21_Witness ==
  /\ lastCall.op = "triggerUpdate"
  /\ interactor[lastCall.by].currentDragVector # Null
  /\ interactor[lastCall.by].previousDragVector = Null
  /\ Count("onManipulationUpdate", emitted) = 1
  /\ Names(DragEvents(emitted)) = <<"onDragStart">>

\* a later frame of a drag
C21_WitnessUpdate ==
  /\ lastCall.op = "triggerUpdate"
  /\ interactor[lastCall.by].currentDragVector # Null
  /\ interactor[lastCall.by].previousDragVector # Null
  /\ Names(DragEvents(emitted)) = <<"onDragUpdate">>

\* C22: triggerEnd clears the bit of the caller's type and invokes, in this
\* order, onInteractorTriggerEnd, the aggregate onTriggerEnd if and only if
\* triggeringInteractor is None after the clear, and onDragEnd if and only if
\* the previousDragVector of the interactor is not null, whether or not the
\* aggregate event was invoked.
C22_TriggerEndOrder ==
  [][lastCall'.op = "triggerEnd"
       => /\ triggeringInteractor' = BitAndNot(triggeringInteractor, InputType(lastCall'.by))
          /\ Names(InteractableEvents(emitted')) =
                <<"onInteractorTriggerEnd">>
                \o (IF triggeringInteractor' = None THEN <<"onTriggerEnd">> ELSE <<>>)
                \o (IF interactor'[lastCall'.by].previousDragVector # Null
                    THEN <<"onDragEnd">> ELSE <<>>)
          /\ emitted'[1].ev = "onInteractorTriggerEnd"
          /\ AllBy(InteractableEvents(emitted'), lastCall'.by)]_vars

\* one of two triggering hands has ended its trigger and its drag: onDragEnd
\* without the aggregate onTriggerEnd
C22_Witness ==
  /\ lastCall.op = "triggerEnd"
  /\ triggeringInteractor # None
  /\ Names(InteractableEvents(emitted)) = <<"onInteractorTriggerEnd", "onDragEnd">>

\* the last triggering hand has ended its trigger and its drag
C22_WitnessAggregate ==
  /\ lastCall.op = "triggerEnd"
  /\ Names(InteractableEvents(emitted)) =
        <<"onInteractorTriggerEnd", "onTriggerEnd", "onDragEnd">>

\* C23: triggerCanceled resets triggeringInteractor to None, leaves
\* hoveringInteractor unchanged, and invokes onTriggerCanceled exactly once,
\* neither onInteractorTriggerEnd nor onTriggerEnd, and then onDragEnd if and
\* only if the previousDragVector of the interactor is not null; its
\* subscriber already reads the mask as None.
C23_TriggerCanceledEvents ==
  [][lastCall'.op = "triggerCanceled"
       => /\ triggeringInteractor' = None
          /\ hoveringInteractor' = hoveringInteractor
          /\ Names(InteractableEvents(emitted')) =
                <<"onTriggerCanceled">>
                \o (IF interactor'[lastCall'.by].previousDragVector # Null
                    THEN <<"onDragEnd">> ELSE <<>>)
          /\ Count("onInteractorTriggerEnd", emitted') = 0
          /\ Count("onTriggerEnd", emitted') = 0
          /\ emitted'[1].ev = "onTriggerCanceled"
          /\ Operative => manip'.interactors = <<>>]_vars

\* a hand that drags has lost its trigger while the other hand still triggers
C23_Witness ==
  /\ lastCall.op = "triggerCanceled"
  /\ hoveringInteractor = BitOr(LeftHand, RightHand)
  /\ \E i \in Hands : i # lastCall.by /\ Triggers(i)
  /\ Names(InteractableEvents(emitted)) = <<"onTriggerCanceled", "onDragEnd">>

\* C24: a triggerEnd clears the bit of the caller's type and no other bit of
\* triggeringInteractor, and leaves hoveringInteractor as it was; a
\* triggerCanceled clears every bit of triggeringInteractor.
C24_EndClearsOneBitCancelAll ==
  [][/\ lastCall'.op = "triggerEnd"
          => /\ \A k \in 0..(InputTypeBits - 1) :
                   Bit(triggeringInteractor', k) =
                     (IF Bit(InputType(lastCall'.by), k) = 1 THEN 0
                      ELSE Bit(triggeringInteractor, k))
             /\ hoveringInteractor' = hoveringInteractor
     /\ lastCall'.op = "triggerCanceled"
          => \A k \in 0..(InputTypeBits - 1) : Bit(triggeringInteractor', k) = 0]_vars

\* one of three triggering interactors has ended its trigger: the two other
\* bits are still set
C24_Witness ==
  /\ lastCall.op = "triggerEnd"
  /\ Cardinality(TypeSet(triggeringInteractor)) = 2
  /\ BitAnd(triggeringInteractor, InputType(lastCall.by)) = None
  /\ TypeSet(hoveringInteractor) = Interactors

-----------------------------------------------------------------------------
(* Properties of the subscriber's view of the trigger state *)

Range(f) == {f[k] : k \in DOMAIN f}

\* C25: the handler InteractableManipulation runs inside
\* onInteractorTriggerStart, onInteractorTriggerEnd and onTriggerCanceled
\* reads the mask as the call leaves it: the interactors it stores are the
\* triggering interactors of the types in the new mask, they include the
\* interactor that starts, exclude the one that ends and are none after a
\* cancel.
C25_SubscriberSeesNewMask ==
  [][(Operative /\ lastCall'.op \in {"triggerStart", "triggerEnd", "triggerCanceled"})
       => /\ manip'.interactors =
                getTriggeringInteractors(triggeringInteractor', interactor')
          /\ lastCall'.op = "triggerStart" => lastCall'.by \in Range(manip'.interactors)
          /\ lastCall'.op = "triggerEnd" => lastCall'.by \notin Range(manip'.interactors)
          /\ lastCall'.op = "triggerCanceled" => Range(manip'.interactors) = {}]_vars

\* the second hand has started its trigger and the handler has stored both
C25_Witness ==
  /\ lastCall.op = "triggerStart"
  /\ Operative
  /\ Len(manip.interactors) = 2
  /\ lastCall.by \in Range(manip.interactors)
  /\ Count("onManipulationStart", emitted) = 1

-----------------------------------------------------------------------------
(* Properties of the axis locks *)

TranslationEnabled(m) == <<m.enableXTranslation, m.enableYTranslation, m.enableZTranslation>>

\* the component with its three axes free
Unlocked(m) ==
  [m EXCEPT !.enableXTranslation = TRUE, !.enableYTranslation = TRUE,
            !.enableZTranslation = TRUE]

\* the position a triggerUpdate of interactor i writes in the frame if no
\* axis is locked: the solved position, filtered if useFilter is on
FreePosition(i, frame) ==
  triggerUpdate([Cur EXCEPT !.m = Unlocked(manip)], i, interactor, frame).root.position

\* the position the solver computes, before any filter
SolvedPosition(i) ==
  triggerUpdate([Cur EXCEPT !.m = [Unlocked(manip) EXCEPT !.useFilter = FALSE]],
                i, interactor, DefaultFrame).root.position

\* the claim as stated: the free coordinates take the solved values, with
\* filtering on or off
C26_Original ==
  [][lastCall'.op = "triggerUpdate"
       => \A k \in 1..3 :
            root'.position[k] = (IF TranslationEnabled(manip)[k]
                                 THEN SolvedPosition(lastCall'.by)[k]
                                 ELSE root.position[k])]_vars

\* C26: a triggerUpdate leaves the coordinate of a locked axis as it was and
\* writes to the free axes the values it would write with no axis locked:
\* the solved values, passed through the filter if useFilter is on.
C26_LockedAxisKept ==
  [][lastCall'.op = "triggerUpdate"
       => \E frame \in Frames : \A k \in 1..3 :
            root'.position[k] = (IF TranslationEnabled(manip)[k]
                                 THEN FreePosition(lastCall'.by, frame)[k]
                                 ELSE root.position[k])]_vars

\* with x locked and the filter on, an update has moved the object half of
\* the way along y while the solver asks for another x
C26_Witness ==
  /\ lastCall.op = "triggerUpdate"
  /\ manip.useFilter
  /\ ~manip.enableXTranslation
  /\ root.position[1] = RootAtAwake.position[1]
  /\ root.position[2] = R(5)
  /\ SolvedPosition(lastCall.by)[1] # root.position[1]

\* with y locked, an update of two hands has moved the object along x only
C26_WitnessDual ==
  /\ lastCall.op = "triggerUpdate"
  /\ Len(manip.interactors) = 2
  /\ ~manip.enableYTranslation
  /\ root.position[1] # RootAtAwake.position[1]
  /\ root.position[2] = RootAtAwake.position[2]
  /\ SolvedPosition(lastCall.by)[2] # root.position[2]

-----------------------------------------------------------------------------
(* Properties of the original transforms *)

\* what cacheTransform captured in onAwake
CapturedWorld == Snapshot(RootAtAwake)
CapturedLocal == [Snapshot(RootAtAwake) EXCEPT !.position = getLocalPosition(RootAtAwake)]

\* the transform after the selected components have been written in the
\* selected space
Written(t, op, local) ==
  LET o == IF local THEN manip.originalLocalTransform ELSE manip.originalWorldTransform
      p == IF op \in {"resetPosition", "resetTransform"}
           THEN (IF local THEN setLocalPosition(t, o.position) ELSE setWorldPosition(t, o.position))
           ELSE t
  IN  [p EXCEPT !.rotation = IF op \in {"resetRotation", "resetTransform"} THEN o.rotation ELSE @,
                !.scale = IF op \in {"resetScale", "resetTransform"} THEN o.scale ELSE @]

\* C27: the two original transforms are those captured in onAwake after
\* every operation, and a reset function writes the captured original of
\* the selected space, and nothing else, to the manipulated transform.
C27_OriginalsKept ==
  [][/\ manip'.originalWorldTransform = CapturedWorld
     /\ manip'.originalLocalTransform = CapturedLocal
     /\ lastCall'.op \in Resets
          => root' = Written(root, lastCall'.op, lastCall'.local)]_vars

\* a local reset has put a moved and scaled object back in its place
C27_Witness ==
  /\ lastCall.op = "resetPosition"
  /\ lastCall.local
  /\ session
  /\ root.position = RootAtAwake.position
  /\ root.scale # RootAtAwake.scale
  /\ manip.startTransform.position # RootAtAwake.position

-----------------------------------------------------------------------------
(* Properties of the start of a manipulation *)

StartEvents(out) ==
  SelectSeq(out, LAMBDA e : e.ev \in {"onTranslationStart", "onRotationStart",
                                      "onScaleStart", "onManipulationStart"})

\* the start value an event of the manipulation carries for startTransform t
Carried(name, t) ==
  CASE name = "onTranslationStart" -> t.position
    [] name = "onRotationStart" -> t.rotation
    [] name = "onScaleStart" -> t.scale
    [] name = "onManipulationStart" -> t

\* C28: a trigger start, end or cancel that leaves an enabled component
\* with a non-empty interactor list resets the three filters, zeroes the
\* stretch accumulators and snapshots startTransform from the manipulated
\* transform, and the Start events it invokes carry that startTransform.
C28_StartValuesReset ==
  [][(Operative /\ lastCall'.op \in {"triggerStart", "triggerEnd", "triggerCanceled"}
        /\ manip'.interactors # <<>>)
       => /\ manip'.translateFilter = Null
          /\ manip'.rotationFilter = Null
          /\ manip'.scaleFilter = Null
          /\ manip'.mobileStretch = Zero
          /\ manip'.smoothedStretch = Zero
          /\ manip'.startStretchInteractorDistance = Zero
          /\ root' = root
          /\ manip'.startTransform = Snapshot(root)
          /\ Count("onManipulationStart", emitted') = 1
          /\ \A k \in DOMAIN StartEvents(emitted') :
               StartEvents(emitted')[k].start
                 = Carried(StartEvents(emitted')[k].ev, manip'.startTransform)]_vars

\* a manipulation starts on an object that an earlier one has moved and
\* scaled
C28_Witness ==
  /\ lastCall.op \in {"triggerStart", "triggerEnd"}
  /\ manip.interactors # <<>>
  /\ manip.startTransform.position # RootAtAwake.position
  /\ manip.startTransform.scale # RootAtAwake.scale
  /\ manip.translateFilter = Null
  /\ \E k \in DOMAIN emitted :
       /\ emitted[k].ev = "onManipulationStart"
       /\ emitted[k].start = Snapshot(root)

\* C29: when the Start events of a one-handed manipulation are invoked,
\* offsetPosition and offsetRotation are the offsets of the transform from
\* the pose the interactor has now.
C29_OffsetsRecomputed ==
  [][(Count("onManipulationStart", emitted') = 1 /\ Len(manip'.interactors) = 1)
       => LET s == interactor'[manip'.interactors[1]] IN
          /\ manip'.offsetPosition = VSub(manip'.startTransform.position, s.startPoint)
          /\ manip'.offsetRotation
               = Multiply(Invert(s.orientation), manip'.startTransform.rotation)]_vars

-----------------------------------------------------------------------------
(* Properties of the scale limit event *)

\* the ratio tests of clampUniformScale take the smallest ratio over the
\* axes: the scale is under the minimum if one axis is, and over the
\* maximum if every axis is
OutsideLimits(scale, m) ==
  \/ \E k \in 1..3 : Lt(scale[k], Mul(m.minimumScaleFactor, m.originalLocalTransform.scale[k]))
  \/ ExceedsMaximum(scale, m)

C30_Witness ==
  /\ ScaleWritten
  /\ Count("onScaleLimitReached", emitted) = 0
  /\ root.scale = UniformScale(manip.originalLocalTransform.scale, manip.maximumScaleFactor)
  /\ root.scale = Unclamped(manip, HandsDistance)

\* the widened object is over the maximum along x alone: no event, and the
\* requested scale is written
C30_WitnessOneAxis ==
  /\ ScaleWritten
  /\ Count("onScaleLimitReached", emitted) = 0
  /\ Gt(root.scale[1], Mul(manip.maximumScaleFactor, manip.originalLocalTransform.scale[1]))
  /\ root.scale = Unclamped(manip, HandsDistance)

-----------------------------------------------------------------------------
(* Properties of clampUniformScale *)

\* result is scale multiplied by one positive number
PositiveMultiple(result, scale) ==
  /\ Gt(Div(result[1], scale[1]), Zero)
  /\ result = UniformScale(scale, Div(result[1], scale[1]))

NonZero(scale) == \A k \in 1..3 : scale[k] # Zero /\ IsFinite(scale[k])

\* every component of the scale has the sign of the original scale's
SameSigns(scale, original) == \A k \in 1..3 : Gt(Div(scale[k], original[k]), Zero)

\* the claim as stated: for every scale with non-zero components
C31_Original ==
  [][(lastCall'.op = "clampUniformScale" /\ NonZero(lastCall'.scale))
       => PositiveMultiple(root'.scale, lastCall'.scale)]_vars

\* C31: for a scale whose components are non-zero and have the signs of the
\* limits' components, clampUniformScale returns the scale multiplied by one
\* positive number, so the ratios between its components are kept.
C31_UniformClamp ==
  [][(lastCall'.op = "clampUniformScale" /\ NonZero(lastCall'.scale)
        /\ SameSigns(lastCall'.scale, manip.originalLocalTransform.scale))
       => PositiveMultiple(root'.scale, lastCall'.scale)]_vars

\* a scale over the maximum along z alone and under the minimum along x
\* has been scaled as a whole
C31_Witness ==
  /\ lastCall.op = "clampUniformScale"
  /\ lastCall.scale = <<<<1, 8>>, R(1), R(8)>>
  /\ manip.originalLocalTransform.scale = VecOne
  /\ root.scale # lastCall.scale
  /\ PositiveMultiple(root.scale, lastCall.scale)

-----------------------------------------------------------------------------
(* Properties of the up vector of the two-handed rotation *)

\* the sign getDualInteractorDirection computes for the two interactors of
\* list: that of the z or x component of the vector between the hands for
\* the axes X and Z, and 0 for All and Y
ComputedSign(axis, list) ==
  LET p1 == interactor[list[1]].startPoint
      p2 == interactor[list[2]].startPoint
  IN  IF axis = "X" THEN Sign(Sub(p2[3], p1[3]))
      ELSE IF axis = "Z" THEN Sign(Sub(p2[1], p1[1]))
      ELSE 0

DualStart == lastCall'.op \in {"triggerStart", "triggerEnd"} /\ Len(manip'.interactors) = 2
DualUpdate == lastCall'.op = "triggerUpdate" /\ Len(manip.interactors) = 2

\* the up vector after a call that finds up and stored before it
UpAfter(up, stored, sign) == IF sign # stored THEN UniformScale(up, R(-1)) ELSE up

C32_WitnessRestart ==
  /\ lastCall.op = "triggerStart"
  /\ Len(manip.interactors) = 2
  /\ manip.rotationAxis = "X"
  /\ manip.currentRotationSign = 1
  /\ manip.currentUp = UniformScale(VecUp, R(-1))
  /\ root.rotation # RootAtAwake.rotation

-----------------------------------------------------------------------------
(* Properties of the payload of the Start and End events *)

IsStart(e) == e.ev \in {"onTranslationStart", "onRotationStart", "onScaleStart",
                        "onManipulationStart"}
IsEnd(e) == e.ev \in {"onTranslationEnd", "onRotationEnd", "onScaleEnd", "onManipulationEnd"}

\* the part of the start transform t that the event named name carries
StartPart(name, t) ==
  IF name \in {"onTranslationStart", "onTranslationEnd"} THEN t.position
  ELSE IF name \in {"onRotationStart", "onRotationEnd"} THEN t.rotation
  ELSE IF name \in {"onScaleStart", "onScaleEnd"} THEN t.scale
  ELSE t

\* C33: the End events a trigger start, end or cancel invokes carry the
\* interactors list and the startTransform of before the call, the Start
\* events those of after the call, and the End events come first.
C33_EndOldStartNew ==
  [][lastCall'.op \in {"triggerStart", "triggerEnd", "triggerCanceled"}
       => \A k \in DOMAIN emitted' :
            LET e == emitted'[k] IN
            /\ IsEnd(e) => /\ e.interactors = manip.interactors
                           /\ e.start = StartPart(e.ev, manip.startTransform)
                           /\ \A j \in 1..(k - 1) : ~IsStart(emitted'[j])
            /\ IsStart(e) => /\ e.interactors = manip'.interactors
                             /\ e.start = StartPart(e.ev, manip'.startTransform)]_vars

\* a second hand has joined after the first one has moved the object: the
\* End events carry one interactor and the old start, the Start events two
\* interactors and the new start
C33_Witness ==
  /\ lastCall.op = "triggerStart"
  /\ Len(manip.interactors) = 2
  /\ \E j, k \in DOMAIN emitted :
       /\ emitted[j].ev = "onManipulationEnd"
       /\ emitted[k].ev = "onManipulationStart"
       /\ Len(emitted[j].interactors) = 1
       /\ emitted[k].interactors = manip.interactors
       /\ emitted[j].start # emitted[k].start
       /\ emitted[k].start = manip.startTransform

-----------------------------------------------------------------------------
(* Properties of the scale events *)

ByDispatcher == lastCall'.op \in {"hoverEnter", "hoverUpdate", "hoverExit", "triggerStart",
                                  "triggerUpdate", "triggerEnd", "triggerCanceled"}

StartSet == Count("onManipulationStart", emitted') = 1
EndSet == Count("onManipulationEnd", emitted') = 1

\* the claim as stated: onScaleStart iff the incoming count is 2, onScaleEnd
\* iff the outgoing count was 2
C34_Original ==
  [][ByDispatcher
       => /\ StartSet => (Count("onScaleStart", emitted') = 1 <=> Len(manip'.interactors) = 2)
          /\ EndSet => (Count("onScaleEnd", emitted') = 1 <=> Len(manip.interactors) = 2)]_vars

\* C34: a Start set holds onScaleStart iff the incoming count is 2 and
\* canScale is true, an End set holds onScaleEnd iff the outgoing count was 2
\* and canScale is true, onScaleUpdate comes only from a dual update with
\* canScale true and a non-zero initialInteractorDistance, and no call of
\* the dispatcher changes the scale while the count is 1 or
\* initialInteractorDistance is 0.
C34_ScaleIsDual ==
  [][ByDispatcher
       => /\ StartSet => (Count("onScaleStart", emitted') = 1
                            <=> (Len(manip'.interactors) = 2 /\ canScale(manip)))
          /\ EndSet => (Count("onScaleEnd", emitted') = 1
                          <=> (Len(manip.interactors) = 2 /\ canScale(manip)))
          /\ ~StartSet => Count("onScaleStart", emitted') = 0
          /\ ~EndSet => Count("onScaleEnd", emitted') = 0
          /\ Count("onScaleUpdate", emitted') > 0
               => /\ lastCall'.op = "triggerUpdate"
                  /\ Len(manip.interactors) = 2
                  /\ canScale(manip)
                  /\ manip.initialInteractorDistance # Zero
          /\ (Len(manip.interactors) = 1 \/ manip.initialInteractorDistance = Zero)
               => root'.scale = root.scale]_vars

\* two hands start on an object with scaling off: a Start set without
\* onScaleStart
C34_Witness ==
  /\ lastCall.op = "triggerStart"
  /\ Len(manip.interactors) = 2
  /\ ~canScale(manip)
  /\ Count("onManipulationStart", emitted) = 1
  /\ Count("onScaleStart", emitted) = 0

\* a dual update of a session that started with the hands together, after
\* the hands have parted: the scale is as it was
C34_WitnessZeroDistance ==
  /\ lastCall.op = "triggerUpdate"
  /\ Len(manip.interactors) = 2
  /\ canScale(manip)
  /\ manip.initialInteractorDistance = Zero
  /\ HandsDistance # Zero
  /\ Count("onManipulationUpdate", emitted) = 1
  /\ Count("onScaleUpdate", emitted) = 0

-----------------------------------------------------------------------------
(* Properties of onDestroy *)

\* C35: onDestroy leaves unsubscribeBag empty, and from then on no call of
\* the dispatcher changes a field of the component or the manipulated
\* transform, or invokes an event (or a warning) of the component.
C35_DestroyedIsInert ==
  [][/\ lastCall'.op = "onDestroy" => manip'.unsubscribeBag = {}
     /\ (manip.unsubscribeBag = {} /\ ByDispatcher)
          => /\ manip' = manip
             /\ root' = root
             /\ emitted' = InteractableEvents(emitted')]_vars

\* the component was destroyed during a manipulation; the hand has moved on
\* and its update has left the object where it was
C35_Witness ==
  /\ lastCall.op = "triggerUpdate"
  /\ manip.unsubscribeBag = {}
  /\ Len(manip.interactors) = 1
  /\ Count("onTriggerUpdate", emitted) = 1
  /\ interactor["right"].startPoint # HomePoint("right")
  /\ VAdd(interactor["right"].startPoint, manip.offsetPosition) # root.position
  /\ manip.interactors = <<"right">>

-----------------------------------------------------------------------------
(* Properties of the Update events *)

\* the translation, rotation and manipulation Update events of out
FrameEvents(out) ==
  SelectSeq(out, LAMBDA e : e.ev \in {"onTranslationUpdate", "onRotationUpdate",
                                      "onManipulationUpdate"})

\* the names of the Update events invokeEvents invokes for the flags of m
GatedUpdates(m) ==
  (IF canTranslate(m) THEN <<"onTranslationUpdate">> ELSE <<>>)
  \o (IF canRotate(m) THEN <<"onRotationUpdate">> ELSE <<>>)
  \o <<"onManipulationUpdate">>

SomeInvalid == \E k \in DOMAIN manip.interactors : ~isInteractorValid(interactor[manip.interactors[k]])

\* C36: a triggerUpdate of an enabled component with a capability on and 1
\* or 2 interactors invokes onTranslationUpdate if canTranslate,
\* onRotationUpdate if canRotate, and onManipulationUpdate, in this order,
\* also when an interactor is invalid; onScaleUpdate is not among the events
\* of a one-handed frame and precedes the others in a two-handed one.
C36_UpdateEventsEveryFrame ==
  [][(lastCall'.op = "triggerUpdate" /\ Operative /\ Len(manip.interactors) \in {1, 2})
       => /\ Names(FrameEvents(emitted')) = GatedUpdates(manip)
          /\ Count("onScaleUpdate", emitted') <= 1
          /\ Len(manip.interactors) = 1 => Count("onScaleUpdate", emitted') = 0
          /\ \A j, k \in DOMAIN emitted' :
               (emitted'[k].ev = "onScaleUpdate" /\ emitted'[j] \in Range(FrameEvents(emitted')))
                 => k < j]_vars

\* a one-handed frame of a hand without orientation, with translation off:
\* the rotation and manipulation events are invoked
C36_Witness ==
  /\ lastCall.op = "triggerUpdate"
  /\ manip.interactors = <<"right">>
  /\ interactor["right"].orientation = Null
  /\ ~canTranslate(manip)
  /\ Names(FrameEvents(emitted)) = <<"onRotationUpdate", "onManipulationUpdate">>

-----------------------------------------------------------------------------
(* Properties of the one-handed rotation *)

SingleUpdate == lastCall'.op = "triggerUpdate" /\ Len(manip.interactors) = 1

\* C37: an update of one interactor that has started its session in the
\* Indirect targeting mode leaves the world rotation as it is, and so does
\* an update of one Direct interactor if rotationAxis is not All.
C37_OneHandKeepsRotation ==
  [][SingleUpdate
       => LET s == interactor[manip.interactors[1]] IN
          /\ s.activeTargetingMode = "Indirect" => root'.rotation = root.rotation
          /\ (s.activeTargetingMode = "Direct" /\ manip.rotationAxis # "All")
               => root'.rotation = root.rotation]_vars

\* the same for the sessions whose start has cached the targeting mode
C37_CachedModeKeepsRotation ==
  [][SingleUpdate
       => /\ manip.cachedTargetingMode = "Indirect" => root'.rotation = root.rotation
          /\ (manip.cachedTargetingMode = "Direct" /\ manip.rotationAxis # "All")
               => root'.rotation = root.rotation]_vars

-----------------------------------------------------------------------------
(* Properties of the HandVisual *)

\* C38: the hand mesh of a HandVisual is enabled only if its hand is found,
\* the phone is not in the hand and the tracked hand is enabled.
C38_MeshOnlyWhenVisible ==
  \A i \in HandTypes :
    handVisual[i].handMesh =>
      /\ handVisual[i].isHandAvailable
      /\ ~handVisual[i].isPhoneInHand
      /\ handVisual[i].enabled

\* the same holds as long as the engine sends no enable or disable event:
\* checked under SpecTracked
C38_TrackedMeshOnlyWhenVisible ==
  \A i \in HandTypes : handVisual[i].handMesh => isVisible(handVisual[i]) /\ handVisual[i].enabled

-----------------------------------------------------------------------------
(* Properties of the Headlock *)

\* what the controller holds for the property name: the lock properties
\* are kept negated, as unlockPitch and unlockYaw
Held(h, name) ==
  CASE name = "lockedPitch" -> ~h.controller.unlockPitch
    [] name = "lockedYaw" -> ~h.controller.unlockYaw
    [] OTHER -> h.controller[name]

RoundTrip(name) ==
  (lastCall.op = "set" /\ lastCall.name = name) =>
    /\ get(headlock, name) = lastCall.value
    /\ Held(headlock, name) = lastCall.value

\* C39: after a property of the Headlock is set to v, its getter returns v
\* and the controller holds v, whatever the other properties are.
C39_SettersRoundTrip == \A name \in Properties : RoundTrip(name)

\* the setters of all properties but xzEasing do round-trip
C39_OtherSettersRoundTrip == \A name \in Properties \ {"xzEasing"} : RoundTrip(name)

-----------------------------------------------------------------------------
(* Properties of the InteractableColorFeedback *)

\* C40: whenever no interactor hovers or triggers the Interactable the
\* meshes have the default colour, and whenever an interactor triggers it
\* they have the pinched colour.
C40_ColourFollowsMasks ==
  /\ (hoveringInteractor = None /\ triggeringInteractor = None) =>
       baseColor = Colors.defaultColor
  /\ triggeringInteractor # None => baseColor = Colors.pinchedColor

\* the last interactor has left after a hover
C40_Witness ==
  /\ lastCall.op = "hoverExit"
  /\ hoveringInteractor = None
  /\ triggeringInteractor = None
  /\ baseColor = Colors.defaultColor

\* one interactor has released while another still triggers
C40_WitnessTriggered ==
  /\ lastCall.op = "triggerEnd"
  /\ triggeringInteractor # None
  /\ baseColor = Colors.pinchedColor

====
